---- MODULE Spec2Model ----
(***************************************************************************)
(* A model of the AutoClaim rule-based verification engine                 *)
(* (server/app/services/verification_rules.py), of the repair cost         *)
(* estimator (repair_estimator_service.py) and of the background task that *)
(* runs the analysis of a claim and stores its outcome                     *)
(* (background_tasks.py, ai_orchestrator.py, forensic_mapper.py).          *)
(*                                                                         *)
(* Representation of Python values                                         *)
(*   dict      a function whose DOMAIN is the set of keys that are present *)
(*   str       a sequence of one-character strings ("" is <<>>)            *)
(*   bool/None the strings "True", "False", "None" (a key that may hold    *)
(*             a boolean or null)                                          *)
(*   int       an integer; a float confidence c is the integer 100*c       *)
(*   score     raw and final scores are kept in halves (ScoreScale = 2),   *)
(*             so that raw * 1.5 stays an integer                          *)
(*   None      where a str is expected NoneStr, where a number is expected *)
(*             NoneNum, where a dict is expected NoneDict; a date that is  *)
(*             null is the absent key (policy) or an unparsable date       *)
(*             (history)                                                   *)
(* Rule ids, severities, phases and statuses are                           *)
(* literals of the engine and are plain strings.  rule_name and reason of  *)
(* a FailedRule are texts fixed by rule_id and the inputs; they are left   *)
(* out of the record.                                                      *)
(***************************************************************************)
EXTENDS Integers, Sequences, FiniteSets, TLC

(***************************************************************************)
(* RuleConfig                                                              *)
(***************************************************************************)
AUTO_APPROVAL_AMOUNT_THRESHOLD == 20000
MIN_VEHICLE_DETECTION_CONFIDENCE == 85
MIN_OCR_PLATE_CONFIDENCE == 80
MIN_CHASE_NUMBER_CONFIDENCE == 75
WEIGHT_CRITICAL == 10
WEIGHT_HIGH == 5
WEIGHT_MEDIUM == 2
WEIGHT_LOW == 1
AUTO_REJECT_SCORE_THRESHOLD == 10
FLAG_FOR_REVIEW_SCORE_THRESHOLD == 2
MAX_CLAIM_TO_ESTIMATE_RATIO == 2
YOLO_AI_SEVERITY_MISMATCH_PENALTY == 3
DUPLICATE_CLAIM_WINDOW_DAYS == 30
COMPOUND_FAILURE_THRESHOLD == 3
\* COMPOUND_MULTIPLIER = 1.5 = COMPOUND_MULTIPLIER_NUM / ScoreScale
COMPOUND_MULTIPLIER_NUM == 3
\* scores are stored multiplied by ScoreScale
ScoreScale == 2
\* age_days of a prior claim whose created_at cannot be parsed
UNPARSED_AGE_DAYS == 999

SEVERITY_WEIGHTS(severity) ==
    CASE severity = "CRITICAL" -> WEIGHT_CRITICAL
      [] severity = "HIGH"     -> WEIGHT_HIGH
      [] severity = "MEDIUM"   -> WEIGHT_MEDIUM
      [] severity = "LOW"      -> WEIGHT_LOW
      [] OTHER                 -> 0

(***************************************************************************)
(* Python strings                                                          *)
(***************************************************************************)
LowerCase == <<"a","b","c","d","e","f","g","h","i","j","k","l","m",
               "n","o","p","q","r","s","t","u","v","w","x","y","z">>
UpperCase == <<"A","B","C","D","E","F","G","H","I","J","K","L","M",
               "N","O","P","Q","R","S","T","U","V","W","X","Y","Z">>

LowerToUpper ==
    [c \in { LowerCase[i] : i \in 1..Len(LowerCase) } |->
        UpperCase[CHOOSE i \in 1..Len(LowerCase) : LowerCase[i] = c]]
UpperToLower ==
    [c \in { UpperCase[i] : i \in 1..Len(UpperCase) } |->
        LowerCase[CHOOSE i \in 1..Len(UpperCase) : UpperCase[i] = c]]

CharUpper(c) == IF c \in DOMAIN LowerToUpper THEN LowerToUpper[c] ELSE c
CharLower(c) == IF c \in DOMAIN UpperToLower THEN UpperToLower[c] ELSE c

\* str.upper(), str.lower()
StrUpper(s) == [i \in 1..Len(s) |-> CharUpper(s[i])]
StrLower(s) == [i \in 1..Len(s) |-> CharLower(s[i])]

\* str.replace(ch, "")
StrRemove(s, ch) == SelectSeq(s, LAMBDA c : c # ch)

\* str.replace(",", " ")
CommaToSpace(s) == [i \in 1..Len(s) |-> IF s[i] = "," THEN " " ELSE s[i]]

\* needle in hay
StrIn(needle, hay) ==
    \E i \in 0..(Len(hay) - Len(needle)) :
        SubSeq(hay, i + 1, i + Len(needle)) = needle

\* str.strip()
RECURSIVE StrStrip(_)
StrStrip(s) ==
    IF s = <<>> THEN s
    ELSE IF Head(s) = " " THEN StrStrip(Tail(s))
    ELSE IF s[Len(s)] = " " THEN StrStrip(SubSeq(s, 1, Len(s) - 1))
    ELSE s

\* set(str.split()): the maximal runs of non-blank characters
StrTokens(s) ==
    { SubSeq(s, p[1], p[2]) :
        p \in { q \in (1..Len(s)) \X (1..Len(s)) :
                    /\ q[1] <= q[2]
                    /\ \A k \in q[1]..q[2] : s[k] # " "
                    /\ (q[1] = 1 \/ s[q[1] - 1] = " ")
                    /\ (q[2] = Len(s) \/ s[q[2] + 1] = " ") } }

\* .upper().replace(" ", "").replace("-", "")
NormalizePlate(s) == StrRemove(StrRemove(StrUpper(s), " "), "-")

(***************************************************************************)
(* Python dicts and truthiness                                             *)
(***************************************************************************)
EmptyDict == [k \in {} |-> 0]

\* d.get(k, default)
Get(d, k, default) == IF k \in DOMAIN d THEN d[k] ELSE default

\* None where a string, a number or a dict is expected
NoneStr == <<"None">>
NoneNum == -1
NoneDict == [None |-> TRUE]

\* v is None, not a dict
IsNoneDict(v) == "None" \in DOMAIN v

\* d.get(k, {}) or {}
Section(d, k) ==
    LET v == Get(d, k, EmptyDict)
    IN  IF IsNoneDict(v) THEN EmptyDict ELSE v

\* _ai(analysis, section, key, default=default): the default also when the
\* section is not a dict
Ai(analysis, section, key, default) ==
    IF section \notin DOMAIN analysis \/ IsNoneDict(analysis[section])
    THEN default
    ELSE Get(analysis[section], key, default)

\* truth value of a bool-or-None value
Truthy(v) == v = "True"

\* v or default, v a string that was never guarded
StrOr_NoGuard(v, default) == v

\* v or default, v a string or None
StrOr(v, default) == IF v = NoneStr \/ v = <<>> THEN default ELSE v

\* v or default, v a number or None
NumOr(v, default) == IF v = NoneNum \/ v = 0 THEN default ELSE v

\* d.get(k) or "" for a string key
StrOf(d, k) == StrOr(Get(d, k, NoneStr), <<>>)

\* d.get(k) or 0 for a numeric key
NumOf(d, k) == NumOr(Get(d, k, NoneNum), 0)

(***************************************************************************)
(* Words that inputs are compared with                                     *)
(***************************************************************************)
W_high == <<"h","i","g","h">>
W_very_high == <<"v","e","r","y","_","h","i","g","h">>
W_medium == <<"m","e","d","i","u","m">>
W_low == <<"l","o","w">>
W_unknown == <<"u","n","k","n","o","w","n">>
W_none == <<"n","o","n","e">>
W_minor == <<"m","i","n","o","r">>
W_moderate == <<"m","o","d","e","r","a","t","e">>
W_severe == <<"s","e","v","e","r","e">>
W_totaled == <<"t","o","t","a","l","e","d">>
W_active == <<"a","c","t","i","v","e">>
W_pending == <<"p","e","n","d","i","n","g">>
W_processing == <<"p","r","o","c","e","s","s","i","n","g">>
W_rejected == <<"r","e","j","e","c","t","e","d">>

STOCK_PHOTO_REJECT_LEVELS == {W_high, W_very_high}

(***************************************************************************)
(* The engine's accumulators: self._passed, self._failed, self._raw_score  *)
(***************************************************************************)
FreshAcc == [passed |-> <<>>, failed |-> <<>>, raw |-> 0]

\* _pass(rule_id)
Pass(acc, rule_id) == [acc EXCEPT !.passed = Append(@, rule_id)]

\* _fail(rule_id, rule_name, reason, severity, phase)
Fail(acc, rule_id, severity, phase) ==
    [acc EXCEPT
        !.failed = Append(@, [rule_id |-> rule_id, severity |-> severity, phase |-> phase]),
        !.raw = @ + ScoreScale * SEVERITY_WEIGHTS(severity)]

(***************************************************************************)
(* PHASE A - Integrity & Source Checks                                     *)
(***************************************************************************)
STOPWORDS == { <<"t","h","e">>, <<"o","f">>, <<"a","n","d">>, <<"i","n">>,
               <<"a","t">>, <<"n","e","a","r">> }

\* _location_matches(loc1, loc2)
LocationMatches(loc1, loc2) ==
    LET tokens1 == StrTokens(CommaToSpace(StrLower(loc1))) \ STOPWORDS
        tokens2 == StrTokens(CommaToSpace(StrLower(loc2))) \ STOPWORDS
    IN  tokens1 \cap tokens2 # {}

\* _check_1_image_quality_gate(ai)
Check1(acc, ai) ==
    LET is_screen == Ai(ai, "forensic_indicators", "is_screen_recapture", "False")
        has_ui    == Ai(ai, "forensic_indicators", "has_ui_elements", "False")
        is_blurry == Ai(ai, "forensic_indicators", "is_blurry", "False")
        quality   == StrLower(StrOr(Ai(ai, "forensic_indicators", "image_quality", W_high), W_high))
    IN  IF Truthy(is_screen) \/ Truthy(has_ui)
        THEN Fail(acc, "SCREEN_RECAPTURE", "CRITICAL", "A")
        ELSE IF Truthy(is_blurry)
        THEN Fail(acc, "IMAGE_BLURRY", "HIGH", "A")
        ELSE IF quality = W_low
        THEN Fail(acc, "IMAGE_LOW_QUALITY", "MEDIUM", "A")
        ELSE Pass(acc, "IMAGE_QUALITY_OK")

\* _check_2_metadata_verification(ai, policy)
Check2(acc, ai, policy) ==
    LET exif == Section(ai, "exif_metadata")
        acc1 == IF StrOf(exif, "timestamp") = <<>>
                THEN Fail(acc, "METADATA_MISSING", "HIGH", "A")
                ELSE Pass(acc, "METADATA_TIMESTAMP")
        gps == Section(exif, "gps_coordinates")
        policy_loc   == StrLower(StrOf(policy, "location"))
        detected_loc == StrLower(StrOf(exif, "location_name"))
    IN  IF NumOf(gps, "latitude") # 0 /\ NumOf(gps, "longitude") # 0
        THEN IF policy_loc # <<>> /\ detected_loc # <<>>
             THEN IF ~LocationMatches(policy_loc, detected_loc)
                  THEN Fail(acc1, "GPS_LOCATION_MISMATCH", "MEDIUM", "A")
                  ELSE Pass(acc1, "GPS_LOCATION")
             ELSE Pass(acc1, "GPS_EXISTS")
        ELSE Fail(acc1, "GPS_MISSING", "LOW", "A")

\* _check_3_reverse_image_search(ai)
Check3(acc, ai) ==
    LET auth == Section(ai, "authenticity_indicators")
        likelihood == StrLower(StrOr(Get(auth, "stock_photo_likelihood", NoneStr), W_unknown))
    IN  IF likelihood \in STOCK_PHOTO_REJECT_LEVELS
        THEN Fail(acc, "STOCK_PHOTO_DETECTED", "CRITICAL", "A")
        ELSE IF likelihood = W_medium
        THEN Fail(acc, "STOCK_PHOTO_SUSPICIOUS", "MEDIUM", "A")
        ELSE Pass(acc, "REVERSE_IMAGE_SEARCH")

\* _check_4_digital_forgery(ai)
Check4(acc, ai) ==
    LET auth == Section(ai, "authenticity_indicators")
        forensic == Section(ai, "forensic_indicators")
        issues ==
            \/ Truthy(Get(auth, "editing_detected", "False"))
            \/ ~Truthy(Get(auth, "lighting_consistent", "True"))
            \/ ~Truthy(Get(auth, "shadows_natural", "True"))
            \/ ~Truthy(Get(auth, "compression_uniform", "True"))
            \/ Truthy(Get(forensic, "multiple_light_sources", "False"))
            \/ Truthy(Get(forensic, "shadows_inconsistent", "False"))
            \/ Truthy(Get(forensic, "has_watermarks", "False"))
    IN  IF issues
        THEN Fail(acc, "DIGITAL_MANIPULATION", "CRITICAL", "A")
        ELSE Pass(acc, "DIGITAL_FORGERY")

(***************************************************************************)
(* PHASE B - Vehicle & Damage Verification                                 *)
(***************************************************************************)
\* _check_5 in which a make or model that was not detected matches nothing
Check5_MissingIsMismatch(acc, ai, policy) ==
    LET detected == Section(ai, "vehicle_identification")
        p_make  == StrLower(StrOf(policy, "vehicle_make"))
        p_model == StrLower(StrOf(policy, "vehicle_model"))
        d_make  == StrLower(StrOf(detected, "make"))
        d_model == StrLower(StrOf(detected, "model"))
        confidence == NumOf(detected, "detected_confidence")
        p_color == StrLower(StrOf(policy, "vehicle_color"))
        d_color == StrLower(StrOf(detected, "color"))
        acc1 == IF confidence < MIN_VEHICLE_DETECTION_CONFIDENCE
                THEN Fail(acc, "VEHICLE_LOW_CONFIDENCE", "MEDIUM", "B")
                ELSE acc
        make_ok  == /\ p_make # <<>> /\ d_make # <<>>
                    /\ (StrIn(p_make, d_make) \/ StrIn(d_make, p_make))
        model_ok == /\ p_model # <<>> /\ d_model # <<>>
                    /\ (StrIn(p_model, d_model) \/ StrIn(d_model, p_model))
        acc2 == IF ~(make_ok /\ model_ok)
                THEN Fail(acc1, "VEHICLE_MISMATCH", "CRITICAL", "B")
                ELSE Pass(acc1, "VEHICLE_MATCH")
    IN  IF /\ p_color # <<>> /\ d_color # <<>>
           /\ ~StrIn(p_color, d_color) /\ ~StrIn(d_color, p_color)
        THEN Fail(acc2, "VEHICLE_COLOR_MISMATCH", "MEDIUM", "B")
        ELSE acc2

\* _check_5_vehicle_match(ai, policy)
Check5(acc, ai, policy) ==
    LET detected == Section(ai, "vehicle_identification")
        p_make  == StrLower(StrOf(policy, "vehicle_make"))
        p_model == StrLower(StrOf(policy, "vehicle_model"))
        d_make  == StrLower(StrOf(detected, "make"))
        d_model == StrLower(StrOf(detected, "model"))
        confidence == NumOf(detected, "detected_confidence")
        p_color == StrLower(StrOf(policy, "vehicle_color"))
        d_color == StrLower(StrOf(detected, "color"))
        acc1 == IF confidence < MIN_VEHICLE_DETECTION_CONFIDENCE
                THEN Fail(acc, "VEHICLE_LOW_CONFIDENCE", "MEDIUM", "B")
                ELSE acc
        make_ok  == p_make # <<>> /\ (StrIn(p_make, d_make) \/ StrIn(d_make, p_make))
        model_ok == p_model # <<>> /\ (StrIn(p_model, d_model) \/ StrIn(d_model, p_model))
        acc2 == IF ~(make_ok /\ model_ok)
                THEN Fail(acc1, "VEHICLE_MISMATCH", "CRITICAL", "B")
                ELSE Pass(acc1, "VEHICLE_MATCH")
    IN  IF /\ p_color # <<>> /\ d_color # <<>>
           /\ ~StrIn(p_color, d_color) /\ ~StrIn(d_color, p_color)
        THEN Fail(acc2, "VEHICLE_COLOR_MISMATCH", "MEDIUM", "B")
        ELSE acc2

\* _check_6_license_plate_match(ai, policy)
Check6(acc, ai, policy) ==
    LET ocr == Section(ai, "ocr_data")
        ocr_text == NormalizePlate(StrOf(ocr, "plate_text"))
        ocr_conf == NumOf(ocr, "confidence")
        policy_plate == NormalizePlate(StrOf(policy, "vehicle_registration"))
        plate_obscured == Ai(ai, "vehicle_identification", "license_plate_obscured", "False")
        acc1 == IF ocr_conf < MIN_OCR_PLATE_CONFIDENCE
                THEN Fail(acc, "PLATE_LOW_CONFIDENCE", "MEDIUM", "B")
                ELSE acc
    IN  IF ocr_text = <<>>
        THEN Fail(acc, "PLATE_NOT_DETECTED",
                  IF ~Truthy(plate_obscured) THEN "HIGH" ELSE "MEDIUM", "B")
        ELSE IF policy_plate # <<>> /\ ocr_text # policy_plate
        THEN Fail(acc1, "PLATE_MISMATCH", "CRITICAL", "B")
        ELSE Pass(acc1, "LICENSE_PLATE")

\* Check7 that returns without an outcome when the OCR read no chassis number
Check7_SilentWhenAbsent(acc, ai, policy) ==
    LET ocr == Section(ai, "ocr_data")
        ocr_chase == StrStrip(StrUpper(StrOf(ocr, "chase_number")))
        chase_conf == NumOf(ocr, "chase_number_confidence")
        policy_chase == StrStrip(StrUpper(StrOf(policy, "chase_number")))
        acc1 == IF chase_conf < MIN_CHASE_NUMBER_CONFIDENCE
                THEN Fail(acc, "CHASE_NUMBER_LOW_CONFIDENCE", "MEDIUM", "B")
                ELSE acc
    IN  IF ocr_chase = <<>>
        THEN acc
        ELSE IF policy_chase # <<>> /\ ocr_chase # policy_chase
        THEN Fail(acc1, "CHASE_NUMBER_MISMATCH", "HIGH", "B")
        ELSE Pass(acc1, "CHASE_NUMBER_MATCH")

\* _check_7_chase_number_match(ai, policy)
Check7(acc, ai, policy) ==
    LET ocr == Section(ai, "ocr_data")
        ocr_chase == StrStrip(StrUpper(StrOf(ocr, "chase_number")))
        chase_conf == NumOf(ocr, "chase_number_confidence")
        policy_chase == StrStrip(StrUpper(StrOf(policy, "chase_number")))
        acc1 == IF chase_conf < MIN_CHASE_NUMBER_CONFIDENCE
                THEN Fail(acc, "CHASE_NUMBER_LOW_CONFIDENCE", "MEDIUM", "B")
                ELSE acc
    IN  IF ocr_chase = <<>>
        THEN Pass(acc, "CHASE_NUMBER_NOT_PROVIDED")
        ELSE IF policy_chase # <<>> /\ ocr_chase # policy_chase
        THEN Fail(acc1, "CHASE_NUMBER_MISMATCH", "HIGH", "B")
        ELSE Pass(acc1, "CHASE_NUMBER_MATCH")

\* _check_8_pre_existing_damage(ai)
Check8(acc, ai) ==
    LET pre == Section(ai, "pre_existing_indicators")
        forensic == Section(ai, "forensic_indicators")
        indicators ==
            \/ Truthy(Get(pre, "rust_detected", "None"))
            \/ Truthy(Get(forensic, "is_rust_present", "None"))
            \/ Truthy(Get(pre, "paint_fading", "None"))
            \/ Truthy(Get(forensic, "is_paint_faded_around_damage", "None"))
            \/ Truthy(Get(pre, "dirt_accumulation", "None"))
            \/ Truthy(Get(forensic, "is_dirt_in_damage", "None"))
            \/ Truthy(Get(pre, "old_repairs_visible", "None"))
    IN  IF indicators
        THEN Fail(acc, "PRE_EXISTING_DAMAGE", "HIGH", "B")
        ELSE Pass(acc, "PRE_EXISTING_DAMAGE")

\* severity_rank.get(severity, 0)
SeverityRank(severity) ==
    CASE severity = W_none     -> 0
      [] severity = W_minor    -> 1
      [] severity = W_moderate -> 2
      [] severity = W_severe   -> 3
      [] severity = W_totaled  -> 4
      [] OTHER                 -> 0

Abs(n) == IF n < 0 THEN -n ELSE n

\* _check_9 without the compounding penalty of the severity gap
Check9_NoPenalty(acc, ai) ==
    LET yolo_detected == Ai(ai, "yolo_results", "yolo_damage_detected", "None")
        yolo_severity == StrLower(StrOr(Ai(ai, "yolo_results", "yolo_severity", NoneStr), W_none))
        ai_detected   == Ai(ai, "damage_assessment", "ai_damage_detected", "None")
        ai_severity   == StrLower(StrOr(Ai(ai, "damage_assessment", "ai_severity", NoneStr), W_none))
        diff == Abs(SeverityRank(yolo_severity) - SeverityRank(ai_severity))
    IN  IF yolo_detected = "None" \/ ai_detected = "None"
        THEN Pass(acc, "YOLO_CORROBORATION_SKIPPED")
        ELSE IF yolo_detected # ai_detected
        THEN Fail(acc, "YOLO_AI_DAMAGE_DISAGREEMENT", "HIGH", "B")
        ELSE IF diff >= 2
        THEN Fail(acc, "YOLO_AI_SEVERITY_GAP", "MEDIUM", "B")
        ELSE Pass(acc, "YOLO_AI_CORROBORATED")

\* _check_9_yolo_damage_corroboration(ai)
Check9(acc, ai) ==
    LET yolo_detected == Ai(ai, "yolo_results", "yolo_damage_detected", "None")
        yolo_severity == StrLower(StrOr(Ai(ai, "yolo_results", "yolo_severity", NoneStr), W_none))
        ai_detected   == Ai(ai, "damage_assessment", "ai_damage_detected", "None")
        ai_severity   == StrLower(StrOr(Ai(ai, "damage_assessment", "ai_severity", NoneStr), W_none))
        diff == Abs(SeverityRank(yolo_severity) - SeverityRank(ai_severity))
    IN  IF yolo_detected = "None" \/ ai_detected = "None"
        THEN Pass(acc, "YOLO_CORROBORATION_SKIPPED")
        ELSE IF yolo_detected # ai_detected
        THEN Fail(acc, "YOLO_AI_DAMAGE_DISAGREEMENT", "HIGH", "B")
        ELSE IF diff >= 2
        THEN [Fail(acc, "YOLO_AI_SEVERITY_GAP", "MEDIUM", "B")
                EXCEPT !.raw = @ + ScoreScale * YOLO_AI_SEVERITY_MISMATCH_PENALTY]
        ELSE Pass(acc, "YOLO_AI_CORROBORATED")

\* _check_10_totalled_vehicle_markers(ai)
Check10(acc, ai) ==
    LET ai_severity   == StrLower(StrOr(Ai(ai, "damage_assessment", "ai_severity", NoneStr), W_none))
        airbags       == Ai(ai, "damage_assessment", "airbags_deployed", "False")
        fluid_leaks   == Ai(ai, "damage_assessment", "fluid_leaks_visible", "False")
        parts_missing == Ai(ai, "damage_assessment", "parts_missing", "False")
    IN  IF ai_severity = W_totaled
        THEN IF ~(Truthy(airbags) \/ Truthy(fluid_leaks) \/ Truthy(parts_missing))
             THEN Fail(acc, "TOTALED_NO_PHYSICAL_MARKERS", "HIGH", "B")
             ELSE Pass(acc, "TOTALED_MARKERS_PRESENT")
        ELSE Pass(acc, "TOTAL_VEHICLE_CHECK_NA")

(***************************************************************************)
(* PHASE C - Contextual Consistency                                        *)
(***************************************************************************)
\* Check11 reading visual_evidence_matches with the default True
Check11_DefaultTrue(acc, ai) ==
    LET narrative == Section(ai, "narrative_consistency")
    IN  IF ~Truthy(Get(narrative, "visual_evidence_matches", "True"))
        THEN Fail(acc, "NARRATIVE_MISMATCH", "HIGH", "C")
        ELSE Pass(acc, "NARRATIVE_CONSISTENCY")

\* _check_11_narrative_consistency(ai)
Check11(acc, ai) ==
    LET narrative == Section(ai, "narrative_consistency")
    IN  IF ~Truthy(Get(narrative, "visual_evidence_matches", "False"))
        THEN Fail(acc, "NARRATIVE_MISMATCH", "HIGH", "C")
        ELSE Pass(acc, "NARRATIVE_CONSISTENCY")

\* _check_12_multi_image_consistency(ai)
Check12(acc, ai) ==
    LET multi == Section(ai, "multi_image_analysis")
        issues ==
            \/ ~Truthy(Get(multi, "plates_consistent", "True"))
            \/ ~Truthy(Get(multi, "vehicle_consistent", "True"))
            \/ ~Truthy(Get(multi, "lighting_consistent", "True"))
            \/ ~Truthy(Get(multi, "damage_location_consistent", "True"))
    IN  IF DOMAIN multi = {}
        THEN Pass(acc, "MULTI_IMAGE_NOT_APPLICABLE")
        ELSE IF issues
        THEN Fail(acc, "MULTI_IMAGE_INCONSISTENCY", "HIGH", "C")
        ELSE Pass(acc, "MULTI_IMAGE_CONSISTENT")

(***************************************************************************)
(* PHASE D - Financial Sanity                                              *)
(***************************************************************************)
\* _check_13_amount_threshold(claim_amount)
Check13(acc, claim_amount) ==
    IF claim_amount <= AUTO_APPROVAL_AMOUNT_THRESHOLD
    THEN Pass(acc, "AMOUNT_THRESHOLD")
    ELSE Fail(acc, "AMOUNT_EXCEEDS_THRESHOLD", "MEDIUM", "D")

\* _check_14_damage_cost_sanity(claim_amount, ai)
\* ai_cost_min / ai_cost_max: the absent key is None.
\* claim_amount / ai_max > 2.0 is claim_amount > 2 * ai_max, and
\* claim_amount < ai_min / 2 is 2 * claim_amount < ai_min.
Check14(acc, claim_amount, ai) ==
    LET damage == Section(ai, "damage_assessment")
        ai_severity == StrLower(StrOr(Get(damage, "ai_severity", NoneStr), W_none))
        ai_min == Get(damage, "ai_cost_min", NoneNum)
        ai_max == Get(damage, "ai_cost_max", NoneNum)
    IN  IF ai_severity = W_none /\ claim_amount > 0
        THEN Fail(acc, "CLAIM_NO_DAMAGE_DETECTED", "CRITICAL", "D")
        ELSE IF ai_max # NoneNum /\ ai_max > 0
        THEN IF claim_amount > MAX_CLAIM_TO_ESTIMATE_RATIO * ai_max
             THEN Fail(acc, "CLAIM_INFLATED", "HIGH", "D")
             ELSE IF ai_min # NoneNum /\ 2 * claim_amount < ai_min
             THEN Fail(acc, "CLAIM_SUSPICIOUSLY_LOW", "LOW", "D")
             ELSE Pass(acc, "DAMAGE_COST_SANITY")
        ELSE Pass(acc, "DAMAGE_COST_SANITY_NO_ESTIMATE")

(***************************************************************************)
(* PHASE E - Policy & History Validation                                   *)
(*                                                                         *)
(* A date string is the record [iso |-> TRUE, day |-> n] when              *)
(* datetime.fromisoformat accepts it (n is its day number) and             *)
(* [iso |-> FALSE] when it raises ValueError.  The clock counts days.      *)
(***************************************************************************)
\* the try block of _check_15: in_window
InWindow(policy, today) ==
    LET has_start == "start_date" \in DOMAIN policy
        has_end   == "end_date" \in DOMAIN policy
    IN  IF has_start /\ ~policy["start_date"].iso THEN TRUE
        ELSE IF has_end /\ ~policy["end_date"].iso THEN TRUE
        ELSE /\ ~(has_start /\ today < policy["start_date"].day)
             /\ ~(has_end /\ today > policy["end_date"].day)

\* _check_15 returning after the status sub-check when the policy is inactive
Check15_StopWhenInactive(acc, policy, claim_amount, today) ==
    LET status == StrLower(StrOf(policy, "status"))
        coverage == IF NumOf(policy, "plan_coverage") # 0
                    THEN NumOf(policy, "plan_coverage")
                    ELSE NumOf(policy, "coverage_amount")
        acc2 == IF ~InWindow(policy, today)
                THEN Fail(Pass(acc, "POLICY_ACTIVE"), "POLICY_EXPIRED_OR_NOT_STARTED", "CRITICAL", "E")
                ELSE Pass(Pass(acc, "POLICY_ACTIVE"), "POLICY_DATE_WINDOW")
    IN  IF status # W_active
        THEN Fail(acc, "POLICY_INACTIVE", "CRITICAL", "E")
        ELSE IF coverage # 0 /\ claim_amount > coverage
        THEN Fail(acc2, "CLAIM_EXCEEDS_COVERAGE", "MEDIUM", "E")
        ELSE Pass(acc2, "COVERAGE_ADEQUATE")

\* _check_15_policy_active_and_coverage(policy, claim_amount); today is
\* datetime.utcnow().date()
Check15(acc, policy, claim_amount, today) ==
    LET status == StrLower(StrOf(policy, "status"))
        coverage == IF NumOf(policy, "plan_coverage") # 0
                    THEN NumOf(policy, "plan_coverage")
                    ELSE NumOf(policy, "coverage_amount")
        acc1 == IF status # W_active
                THEN Fail(acc, "POLICY_INACTIVE", "CRITICAL", "E")
                ELSE Pass(acc, "POLICY_ACTIVE")
        acc2 == IF ~InWindow(policy, today)
                THEN Fail(acc1, "POLICY_EXPIRED_OR_NOT_STARTED", "CRITICAL", "E")
                ELSE Pass(acc1, "POLICY_DATE_WINDOW")
    IN  IF coverage # 0 /\ claim_amount > coverage
        THEN Fail(acc2, "CLAIM_EXCEEDS_COVERAGE", "MEDIUM", "E")
        ELSE Pass(acc2, "COVERAGE_ADEQUATE")

\* age_days of one prior claim
AgeDays(prior, utcnow) ==
    IF "created_at" \in DOMAIN prior /\ prior["created_at"].iso
    THEN utcnow - prior["created_at"].day
    ELSE UNPARSED_AGE_DAYS

\* _check_16 looking for a recent claim of the plate only when no claim is open
Check16_OpenHidesPlate(acc, ai, policy, history, utcnow) ==
    LET ocr == Section(ai, "ocr_data")
        this_plate == NormalizePlate(
            IF StrOf(ocr, "plate_text") # <<>>
            THEN StrOf(ocr, "plate_text")
            ELSE StrOf(policy, "vehicle_registration"))
        recent_open ==
            \E i \in 1..Len(history) :
                StrLower(StrOf(history[i], "status")) \in {W_pending, W_processing}
        same_plate_recent ==
            \E i \in 1..Len(history) :
                /\ this_plate # <<>>
                /\ NormalizePlate(StrOf(history[i], "vehicle_registration")) = this_plate
                /\ AgeDays(history[i], utcnow) <= DUPLICATE_CLAIM_WINDOW_DAYS
                /\ StrLower(StrOf(history[i], "status")) # W_rejected
    IN  IF Len(history) = 0
        THEN Pass(acc, "DUPLICATE_CLAIM_NOT_APPLICABLE")
        ELSE IF recent_open
        THEN Fail(acc, "DUPLICATE_OPEN_CLAIM", "HIGH", "E")
        ELSE IF same_plate_recent
        THEN Fail(acc, "DUPLICATE_PLATE_RECENT", "HIGH", "E")
        ELSE Pass(acc, "NO_DUPLICATE_CLAIMS")

\* _check_16_duplicate_claim_guard(ai, policy, history); utcnow is
\* datetime.utcnow()
Check16(acc, ai, policy, history, utcnow) ==
    LET ocr == Section(ai, "ocr_data")
        this_plate == NormalizePlate(
            IF StrOf(ocr, "plate_text") # <<>>
            THEN StrOf(ocr, "plate_text")
            ELSE StrOf(policy, "vehicle_registration"))
        recent_open ==
            \E i \in 1..Len(history) :
                StrLower(StrOf(history[i], "status")) \in {W_pending, W_processing}
        same_plate_recent ==
            \E i \in 1..Len(history) :
                /\ this_plate # <<>>
                /\ NormalizePlate(StrOf(history[i], "vehicle_registration")) = this_plate
                /\ AgeDays(history[i], utcnow) <= DUPLICATE_CLAIM_WINDOW_DAYS
                /\ StrLower(StrOf(history[i], "status")) # W_rejected
        acc1 == IF recent_open
                THEN Fail(acc, "DUPLICATE_OPEN_CLAIM", "HIGH", "E")
                ELSE acc
        acc2 == IF same_plate_recent
                THEN Fail(acc1, "DUPLICATE_PLATE_RECENT", "HIGH", "E")
                ELSE acc1
    IN  IF Len(history) = 0
        THEN Pass(acc, "DUPLICATE_CLAIM_NOT_APPLICABLE")
        ELSE IF ~recent_open /\ ~same_plate_recent
        THEN Pass(acc2, "NO_DUPLICATE_CLAIMS")
        ELSE acc2

(***************************************************************************)
(* Exceptions                                                              *)
(*                                                                         *)
(* CheckNRaises is true when _check_N raises for its arguments: a str      *)
(* method called on None (AttributeError), None compared with a number     *)
(* (TypeError), .get called on a policy that is None (AttributeError).     *)
(***************************************************************************)
\* a value of another type where a str is expected (a number, a list)
NotStr == <<"NotStr">>

\* v.lower(), v.upper(), v.strip() raise AttributeError
NoStrMethods(v) == v = NoneStr \/ v = NotStr

\* v < x, v > x raise TypeError
NoOrder(v) == v = NoneNum

Check1Raises(ai) ==
    NoStrMethods(StrOr(Ai(ai, "forensic_indicators", "image_quality", W_high), W_high))

Check2Raises(ai, policy) ==
    LET exif == Section(ai, "exif_metadata")
        gps == Section(exif, "gps_coordinates")
    IN  /\ NumOf(gps, "latitude") # 0 /\ NumOf(gps, "longitude") # 0
        /\ \/ IsNoneDict(policy)
           \/ NoStrMethods(StrOf(policy, "location"))
           \/ NoStrMethods(StrOf(exif, "location_name"))

Check3Raises(ai) ==
    LET auth == Section(ai, "authenticity_indicators")
    IN  NoStrMethods(StrOr(Get(auth, "stock_photo_likelihood", NoneStr), W_unknown))

Check4Raises(ai) == FALSE

Check5Raises(ai, policy) ==
    LET detected == Section(ai, "vehicle_identification")
    IN  \/ IsNoneDict(policy)
        \/ \E k \in {"vehicle_make", "vehicle_model", "vehicle_color"} :
                NoStrMethods(StrOf(policy, k))
        \/ \E k \in {"make", "model", "color"} : NoStrMethods(StrOf(detected, k))
        \/ NoOrder(NumOf(detected, "detected_confidence"))

Check6Raises(ai, policy) ==
    LET ocr == Section(ai, "ocr_data")
    IN  \/ NoStrMethods(StrOf(ocr, "plate_text"))
        \/ IsNoneDict(policy)
        \/ NoStrMethods(StrOf(policy, "vehicle_registration"))
        \/ NormalizePlate(StrOf(ocr, "plate_text")) # <<>>
                /\ NoOrder(NumOf(ocr, "confidence"))

Check7Raises(ai, policy) ==
    LET ocr == Section(ai, "ocr_data")
    IN  \/ NoStrMethods(StrOf(ocr, "chase_number"))
        \/ IsNoneDict(policy)
        \/ NoStrMethods(StrOf(policy, "chase_number"))
        \/ StrStrip(StrUpper(StrOf(ocr, "chase_number"))) # <<>>
                /\ NoOrder(NumOf(ocr, "chase_number_confidence"))

Check8Raises(ai) == FALSE

Check9Raises(ai) ==
    \/ NoStrMethods(StrOr(Ai(ai, "yolo_results", "yolo_severity", NoneStr), W_none))
    \/ NoStrMethods(StrOr(Ai(ai, "damage_assessment", "ai_severity", NoneStr), W_none))

Check10Raises(ai) ==
    NoStrMethods(StrOr(Ai(ai, "damage_assessment", "ai_severity", NoneStr), W_none))

Check11Raises(ai) == FALSE

Check12Raises(ai) == FALSE

Check13Raises(claim_amount) == FALSE

Check14Raises(claim_amount, ai) ==
    LET damage == Section(ai, "damage_assessment")
    IN  NoStrMethods(StrOr(Get(damage, "ai_severity", NoneStr), W_none))

Check15Raises(policy, claim_amount) ==
    \/ IsNoneDict(policy)
    \/ NoStrMethods(StrOf(policy, "status"))

Check16Raises(ai, policy, history) ==
    LET ocr == Section(ai, "ocr_data")
    IN  /\ Len(history) > 0
        /\ \/ StrOf(ocr, "plate_text") = <<>> /\ IsNoneDict(policy)
           \/ NoStrMethods(IF StrOf(ocr, "plate_text") # <<>>
                           THEN StrOf(ocr, "plate_text")
                           ELSE StrOf(policy, "vehicle_registration"))
           \/ \E i \in 1..Len(history) :
                \/ NoStrMethods(StrOf(history[i], "status"))
                \/ NoStrMethods(StrOf(history[i], "vehicle_registration"))

(***************************************************************************)
(* FINAL DECISION                                                          *)
(***************************************************************************)
CONFIDENCE_PENALTY_DIVISOR == 50
PERCENT == 100

Max(a, b) == IF a >= b THEN a ELSE b
Min(a, b) == IF a <= b THEN a ELSE b

CountSeverity(failed, severity) ==
    Cardinality({ i \in 1..Len(failed) : failed[i].severity = severity })

\* FinalScore with the comparison of the compounding test strict
FinalScore_Strict(acc) ==
    LET severe_failure_count ==
            CountSeverity(acc.failed, "CRITICAL") + CountSeverity(acc.failed, "HIGH")
    IN  IF severe_failure_count > COMPOUND_FAILURE_THRESHOLD
        THEN (acc.raw * COMPOUND_MULTIPLIER_NUM) \div ScoreScale
        ELSE acc.raw

\* FinalScore with the compounding test inverted
FinalScore_Inverted(acc) ==
    LET severe_failure_count ==
            CountSeverity(acc.failed, "CRITICAL") + CountSeverity(acc.failed, "HIGH")
    IN  IF severe_failure_count < COMPOUND_FAILURE_THRESHOLD
        THEN (acc.raw * COMPOUND_MULTIPLIER_NUM) \div ScoreScale
        ELSE acc.raw

\* final_score, in halves
FinalScore(acc) ==
    LET severe_failure_count ==
            CountSeverity(acc.failed, "CRITICAL") + CountSeverity(acc.failed, "HIGH")
    IN  IF severe_failure_count >= COMPOUND_FAILURE_THRESHOLD
        THEN (acc.raw * COMPOUND_MULTIPLIER_NUM) \div ScoreScale
        ELSE acc.raw

\* ConfidenceScore without the max(0.0, ...) clamp
ConfidenceScore_NoClamp(acc, final_score) ==
    LET passed == Len(acc.passed)
        max_possible == Len(acc.passed) + Len(acc.failed)
        full == CONFIDENCE_PENALTY_DIVISOR * ScoreScale
        penalty == Min(final_score, full)
    IN  IF max_possible # 0
        THEN [num |-> (passed * full - penalty * max_possible) * PERCENT,
              den |-> max_possible * full]
        ELSE [num |-> (full - penalty) * PERCENT, den |-> full]

\* confidence_score as the fraction num / den:
\*   max(0.0, raw_pass_rate - min(final_score / 50.0, 1.0)) * 100.0
\* with raw_pass_rate = passed / max_possible (1.0 when max_possible is 0)
ConfidenceScore(acc, final_score) ==
    LET passed == Len(acc.passed)
        max_possible == Len(acc.passed) + Len(acc.failed)
        full == CONFIDENCE_PENALTY_DIVISOR * ScoreScale
        penalty == Min(final_score, full)
    IN  IF max_possible # 0
        THEN [num |-> Max(0, passed * full - penalty * max_possible) * PERCENT,
              den |-> max_possible * full]
        ELSE [num |-> Max(0, full - penalty) * PERCENT, den |-> full]

\* _build(status, reason, confidence_level, confidence_score, auto_approved,
\*        review, monitor, score); timestamp is datetime.utcnow()
Build(acc, status, reason, confidence_level, confidence_score, auto_approved, review, monitor, score, stamp) ==
    [status                |-> status,
     decision_reason       |-> reason,
     confidence_level      |-> confidence_level,
     confidence_score      |-> confidence_score,
     auto_approved         |-> auto_approved,
     requires_human_review |-> review,
     requires_monitoring   |-> monitor,
     severity_score        |-> score,
     passed_checks         |-> acc.passed,
     failed_checks         |-> acc.failed,
     timestamp             |-> stamp]

\* MakeFinalDecision with the score thresholds tested before the critical count
MakeFinalDecision_ScoreFirst(acc, stamp) ==
    LET critical_count == CountSeverity(acc.failed, "CRITICAL")
        final_score == FinalScore(acc)
        confidence_score == ConfidenceScore(acc, final_score)
    IN  IF Len(acc.failed) = 0
        THEN Build(acc, "APPROVED", [text |-> "all_passed", n |-> 0], "HIGH",
                   confidence_score, TRUE, FALSE, FALSE, final_score, stamp)
        ELSE IF final_score >= FLAG_FOR_REVIEW_SCORE_THRESHOLD * ScoreScale
        THEN Build(acc, "FLAGGED", [text |-> "review", n |-> 0], "MEDIUM",
                   confidence_score, FALSE, TRUE, FALSE, final_score, stamp)
        ELSE IF critical_count > 0
        THEN Build(acc, "REJECTED", [text |-> "critical", n |-> critical_count], "HIGH",
                   confidence_score, FALSE, TRUE, FALSE, final_score, stamp)
        ELSE Build(acc, "APPROVED", [text |-> "minor", n |-> 0], "MEDIUM",
                   confidence_score, TRUE, FALSE, TRUE, final_score, stamp)

\* MakeFinalDecision without the "no failures" branch
MakeFinalDecision_NoCleanBranch(acc, stamp) ==
    LET critical_count == CountSeverity(acc.failed, "CRITICAL")
        final_score == FinalScore(acc)
        confidence_score == ConfidenceScore(acc, final_score)
    IN  IF critical_count > 0
        THEN Build(acc, "REJECTED", [text |-> "critical", n |-> critical_count], "HIGH",
                   confidence_score, FALSE, TRUE, FALSE, final_score, stamp)
        ELSE IF final_score >= AUTO_REJECT_SCORE_THRESHOLD * ScoreScale
        THEN Build(acc, "REJECTED", [text |-> "accumulated", n |-> final_score], "HIGH",
                   confidence_score, FALSE, TRUE, FALSE, final_score, stamp)
        ELSE IF final_score >= FLAG_FOR_REVIEW_SCORE_THRESHOLD * ScoreScale
        THEN Build(acc, "FLAGGED", [text |-> "review", n |-> 0], "MEDIUM",
                   confidence_score, FALSE, TRUE, FALSE, final_score, stamp)
        ELSE Build(acc, "APPROVED", [text |-> "minor", n |-> 0], "MEDIUM",
                   confidence_score, TRUE, FALSE, TRUE, final_score, stamp)

\* _make_final_decision that flags only above FLAG_FOR_REVIEW_SCORE_THRESHOLD
MakeFinalDecision_StrictFlag(acc, stamp) ==
    LET critical_count == CountSeverity(acc.failed, "CRITICAL")
        final_score == FinalScore(acc)
        confidence_score == ConfidenceScore(acc, final_score)
    IN  IF Len(acc.failed) = 0
        THEN Build(acc, "APPROVED", [text |-> "all_passed", n |-> 0], "HIGH",
                   confidence_score, TRUE, FALSE, FALSE, final_score, stamp)
        ELSE IF critical_count > 0
        THEN Build(acc, "REJECTED", [text |-> "critical", n |-> critical_count], "HIGH",
                   confidence_score, FALSE, TRUE, FALSE, final_score, stamp)
        ELSE IF final_score >= AUTO_REJECT_SCORE_THRESHOLD * ScoreScale
        THEN Build(acc, "REJECTED", [text |-> "accumulated", n |-> final_score], "HIGH",
                   confidence_score, FALSE, TRUE, FALSE, final_score, stamp)
        ELSE IF final_score > FLAG_FOR_REVIEW_SCORE_THRESHOLD * ScoreScale
        THEN Build(acc, "FLAGGED", [text |-> "review", n |-> 0], "MEDIUM",
                   confidence_score, FALSE, TRUE, FALSE, final_score, stamp)
        ELSE Build(acc, "APPROVED", [text |-> "minor", n |-> 0], "MEDIUM",
                   confidence_score, TRUE, FALSE, TRUE, final_score, stamp)

\* _make_final_decision whose last branch asks for review instead of monitoring
MakeFinalDecision_ReviewMinor(acc, stamp) ==
    LET critical_count == CountSeverity(acc.failed, "CRITICAL")
        final_score == FinalScore(acc)
        confidence_score == ConfidenceScore(acc, final_score)
    IN  IF Len(acc.failed) = 0
        THEN Build(acc, "APPROVED", [text |-> "all_passed", n |-> 0], "HIGH",
                   confidence_score, TRUE, FALSE, FALSE, final_score, stamp)
        ELSE IF critical_count > 0
        THEN Build(acc, "REJECTED", [text |-> "critical", n |-> critical_count], "HIGH",
                   confidence_score, FALSE, TRUE, FALSE, final_score, stamp)
        ELSE IF final_score >= AUTO_REJECT_SCORE_THRESHOLD * ScoreScale
        THEN Build(acc, "REJECTED", [text |-> "accumulated", n |-> final_score], "HIGH",
                   confidence_score, FALSE, TRUE, FALSE, final_score, stamp)
        ELSE IF final_score >= FLAG_FOR_REVIEW_SCORE_THRESHOLD * ScoreScale
        THEN Build(acc, "FLAGGED", [text |-> "review", n |-> 0], "MEDIUM",
                   confidence_score, FALSE, TRUE, FALSE, final_score, stamp)
        ELSE Build(acc, "APPROVED", [text |-> "minor", n |-> 0], "MEDIUM",
                   confidence_score, TRUE, TRUE, FALSE, final_score, stamp)

\* _make_final_decision(claim_amount)
MakeFinalDecision(acc, stamp) ==
    LET critical_count == CountSeverity(acc.failed, "CRITICAL")
        final_score == FinalScore(acc)
        confidence_score == ConfidenceScore(acc, final_score)
    IN  IF Len(acc.failed) = 0
        THEN Build(acc, "APPROVED", [text |-> "all_passed", n |-> 0], "HIGH",
                   confidence_score, TRUE, FALSE, FALSE, final_score, stamp)
        ELSE IF critical_count > 0
        THEN Build(acc, "REJECTED", [text |-> "critical", n |-> critical_count], "HIGH",
                   confidence_score, FALSE, TRUE, FALSE, final_score, stamp)
        ELSE IF final_score >= AUTO_REJECT_SCORE_THRESHOLD * ScoreScale
        THEN Build(acc, "REJECTED", [text |-> "accumulated", n |-> final_score], "HIGH",
                   confidence_score, FALSE, TRUE, FALSE, final_score, stamp)
        ELSE IF final_score >= FLAG_FOR_REVIEW_SCORE_THRESHOLD * ScoreScale
        THEN Build(acc, "FLAGGED", [text |-> "review", n |-> 0], "MEDIUM",
                   confidence_score, FALSE, TRUE, FALSE, final_score, stamp)
        ELSE Build(acc, "APPROVED", [text |-> "minor", n |-> 0], "MEDIUM",
                   confidence_score, TRUE, FALSE, TRUE, final_score, stamp)

(***************************************************************************)
(* verify_claim on a newly constructed engine                              *)
(*                                                                         *)
(* read15, read16 and stamp are the values datetime.utcnow() returns in    *)
(* _check_15, _check_16 and _build.                                        *)
(***************************************************************************)
PhaseA(acc, a) ==
    Check4(Check3(Check2(Check1(acc, a.ai_analysis),
                         a.ai_analysis, a.policy_data),
                  a.ai_analysis),
           a.ai_analysis)

PhaseB(acc, a) ==
    Check10(Check9(Check8(Check7(Check6(Check5(acc, a.ai_analysis, a.policy_data),
                                        a.ai_analysis, a.policy_data),
                                 a.ai_analysis, a.policy_data),
                          a.ai_analysis),
                   a.ai_analysis),
            a.ai_analysis)

PhaseC(acc, a) == Check12(Check11(acc, a.ai_analysis), a.ai_analysis)

PhaseD(acc, a) == Check14(Check13(acc, a.claim_amount), a.claim_amount, a.ai_analysis)

PhaseE(acc, a, read15, read16) ==
    Check16(Check15(acc, a.policy_data, a.claim_amount, read15),
            a.ai_analysis, a.policy_data, a.history, read16)

\* VerificationRules().verify_claim(claim_amount, ai_analysis, policy_data, history)
VerifyFresh(a, read15, read16, stamp) ==
    MakeFinalDecision(
        PhaseE(PhaseD(PhaseC(PhaseB(PhaseA(FreshAcc, a), a), a), a), a, read15, read16),
        stamp)

(***************************************************************************)
(* Bounds of the model                                                     *)
(***************************************************************************)
\* the clock runs over the days 0..MaxDay
MaxDay == 1
\* a claim history holds at most MaxHistory prior claims
MaxHistory == 1
\* one engine serves at most MaxCalls calls of verify_claim
MaxCalls == 2
\* with two callers, the scheduler switches caller at most MaxSwitches times
MaxSwitches == 2

(***************************************************************************)
(* Inputs                                                                  *)
(***************************************************************************)
Date(n) == [iso |-> TRUE, day |-> n]
BadDate == [iso |-> FALSE]

T_stamp   == <<"2","0","2","4">>
L_policy  == <<"k","o","c","h","i",",","K","L">>
L_match   == <<"a","t"," ","K","o","c","h","i">>
L_other   == <<"a","t"," ","G","o","a">>
M_kia     == <<"K","i","a">>
M_kia_up  == <<"K","I","A"," ","M","O","T","O","R","S">>
M_audi    == <<"A","u","d","i">>
M_seltos  == <<"S","e","l","t","o","s">>
C_white   == <<"W","h","i","t","e">>
C_red     == <<"r","e","d">>
R_policy  == <<"K","L","-","0","7","-","C","U","-","7","4","7","5">>
R_ocr     == <<"K","L","0","7","C","U","7","4","7","5">>
R_ocr_low == <<"k","l"," ","0","7"," ","c","u"," ","7","4","7","5">>
R_other   == <<"K","L","0","7","C","U","7","4","7","6">>
N_policy  == <<"V","I","N","1">>
N_ocr     == <<" ","v","i","n","1"," ">>
N_other   == <<"v","i","n","2">>
W_Active  == <<"A","c","t","i","v","e">>
W_expired == <<"e","x","p","i","r","e","d">>
W_approved == <<"a","p","p","r","o","v","e","d">>
W_LOW     == <<"L","O","W">>

ExifFull   == [timestamp |-> T_stamp, location_name |-> L_match,
               gps_coordinates |-> [latitude |-> 10, longitude |-> 76]]
ExifValues ==
    { EmptyDict, ExifFull,
      [timestamp |-> T_stamp],
      [ExifFull EXCEPT !.location_name = L_other] }

ScreenRecapture == [is_screen_recapture |-> "True"]
ForensicValues ==
    { EmptyDict, ScreenRecapture,
      [is_screen_recapture |-> "True", has_watermarks |-> "True"],
      [is_blurry |-> "True"],
      [image_quality |-> W_LOW],
      [is_rust_present |-> "True"] }

AuthValues ==
    { EmptyDict,
      [stock_photo_likelihood |-> W_very_high],
      [stock_photo_likelihood |-> W_medium],
      [lighting_consistent |-> "None"] }

VehicleOk == [make |-> M_kia_up, model |-> M_seltos, color |-> C_white,
              detected_confidence |-> 90]
VehicleValues ==
    { EmptyDict, VehicleOk,
      [VehicleOk EXCEPT !.make = M_audi],
      [VehicleOk EXCEPT !.detected_confidence = 50],
      [VehicleOk EXCEPT !.color = C_red],
      [license_plate_obscured |-> "True"] }

OcrOk == [plate_text |-> R_ocr, confidence |-> 90]
OcrValues ==
    { EmptyDict, OcrOk,
      [plate_text |-> R_ocr_low, confidence |-> 50],
      [OcrOk EXCEPT !.plate_text = R_other],
      [plate_text |-> R_ocr, confidence |-> 90,
       chase_number |-> N_ocr, chase_number_confidence |-> 90],
      [plate_text |-> R_ocr, confidence |-> 90,
       chase_number |-> N_other, chase_number_confidence |-> 50] }

YoloOk == [yolo_damage_detected |-> "True", yolo_severity |-> W_minor]
YoloValues ==
    { EmptyDict, YoloOk,
      [yolo_damage_detected |-> "True", yolo_severity |-> W_severe],
      [yolo_damage_detected |-> "False", yolo_severity |-> W_none] }

DamageOk == [ai_damage_detected |-> "True", ai_severity |-> W_minor,
             ai_cost_min |-> 10000, ai_cost_max |-> 20000]
DamageValues ==
    { EmptyDict, DamageOk,
      [ai_damage_detected |-> "False", ai_severity |-> W_none],
      [ai_damage_detected |-> "True", ai_severity |-> W_totaled,
       ai_cost_min |-> 10000, ai_cost_max |-> 20000],
      [ai_damage_detected |-> "True", ai_severity |-> W_totaled,
       airbags_deployed |-> "True", ai_cost_min |-> 60000, ai_cost_max |-> 90000] }

PreValues == { EmptyDict, [rust_detected |-> "True"] }

NarrativeValues ==
    { EmptyDict, [visual_evidence_matches |-> "True"],
      [visual_evidence_matches |-> "False"] }

MultiValues ==
    { EmptyDict, [plates_consistent |-> "True"], [plates_consistent |-> "False"] }

PolicyOk == [vehicle_make |-> M_kia, vehicle_model |-> M_seltos,
             vehicle_color |-> C_white, vehicle_registration |-> R_policy,
             chase_number |-> N_policy, status |-> W_Active,
             start_date |-> Date(-100), end_date |-> Date(265),
             plan_coverage |-> 100000, location |-> L_policy]
ExpiringPolicy == [PolicyOk EXCEPT !.end_date = Date(0)]
PolicyValues ==
    { PolicyOk, ExpiringPolicy,
      [PolicyOk EXCEPT !.status = W_expired],
      [PolicyOk EXCEPT !.start_date = Date(1), !.end_date = BadDate],
      [PolicyOk EXCEPT !.plan_coverage = 10000],
      [PolicyOk EXCEPT !.vehicle_make = <<>>] }

AgeingClaim == [claim_id |-> 2, status |-> W_approved, created_at |-> Date(-30),
                vehicle_registration |-> R_policy]
PriorClaims ==
    { [claim_id |-> 1, status |-> W_pending, created_at |-> Date(-90),
       vehicle_registration |-> R_other],
      AgeingClaim,
      [claim_id |-> 3, status |-> W_rejected, created_at |-> Date(-1),
       vehicle_registration |-> R_ocr],
      [claim_id |-> 4, status |-> W_approved, created_at |-> BadDate,
       vehicle_registration |-> R_ocr] }
HistoryValues == UNION { [1..n -> PriorClaims] : n \in 0..MaxHistory }

AmountValues == { 0, 15000, 25000, 50000 }

Dimensions == { "exif_metadata", "forensic_indicators", "authenticity_indicators",
                "vehicle_identification", "ocr_data", "yolo_results",
                "damage_assessment", "pre_existing_indicators",
                "narrative_consistency", "multi_image_analysis",
                "policy_data", "history", "claim_amount" }
FactSections == Dimensions \ { "policy_data", "history", "claim_amount" }

Values(d) ==
    CASE d = "exif_metadata"           -> ExifValues
      [] d = "forensic_indicators"     -> ForensicValues
      [] d = "authenticity_indicators" -> AuthValues
      [] d = "vehicle_identification"  -> VehicleValues
      [] d = "ocr_data"                -> OcrValues
      [] d = "yolo_results"            -> YoloValues
      [] d = "damage_assessment"       -> DamageValues
      [] d = "pre_existing_indicators" -> PreValues
      [] d = "narrative_consistency"   -> NarrativeValues
      [] d = "multi_image_analysis"    -> MultiValues
      [] d = "policy_data"             -> PolicyValues
      [] d = "history"                 -> HistoryValues
      [] d = "claim_amount"            -> AmountValues

\* every perception stage delivered clean facts
CleanBundle ==
    [d \in Dimensions |->
        CASE d = "exif_metadata"           -> ExifFull
          [] d = "vehicle_identification"  -> VehicleOk
          [] d = "ocr_data"                -> OcrOk
          [] d = "yolo_results"            -> YoloOk
          [] d = "damage_assessment"       -> DamageOk
          [] d = "narrative_consistency"   -> [visual_evidence_matches |-> "True"]
          [] d = "policy_data"             -> PolicyOk
          [] d = "history"                 -> <<>>
          [] d = "claim_amount"            -> 15000
          [] OTHER                         -> EmptyDict]

\* no perception stage delivered anything
EmptyBundle ==
    [d \in Dimensions |->
        CASE d = "policy_data"  -> PolicyOk
          [] d = "history"      -> <<>>
          [] d = "claim_amount" -> 0
          [] OTHER              -> EmptyDict]

\* every check has something to object to
WorstBundle ==
    [d \in Dimensions |->
        CASE d = "exif_metadata"           -> EmptyDict
          [] d = "forensic_indicators"     ->
                [is_screen_recapture |-> "True", has_watermarks |-> "True"]
          [] d = "authenticity_indicators" -> [stock_photo_likelihood |-> W_very_high]
          [] d = "vehicle_identification"  -> [VehicleOk EXCEPT !.make = M_audi]
          [] d = "ocr_data"                ->
                [plate_text |-> R_other, confidence |-> 90,
                 chase_number |-> N_other, chase_number_confidence |-> 50]
          [] d = "yolo_results"            ->
                [yolo_damage_detected |-> "False", yolo_severity |-> W_none]
          [] d = "damage_assessment"       ->
                [ai_damage_detected |-> "True", ai_severity |-> W_totaled,
                 ai_cost_min |-> 10000, ai_cost_max |-> 20000]
          [] d = "pre_existing_indicators" -> [rust_detected |-> "True"]
          [] d = "narrative_consistency"   -> [visual_evidence_matches |-> "False"]
          [] d = "multi_image_analysis"    -> [plates_consistent |-> "False"]
          [] d = "policy_data"             ->
                [PolicyOk EXCEPT !.status = W_expired, !.end_date = Date(-1),
                                 !.plan_coverage = 10000]
          [] d = "history"                 ->
                <<[claim_id |-> 1, status |-> W_pending, created_at |-> Date(-1),
                   vehicle_registration |-> R_other]>>
          [] d = "claim_amount"            -> 50000]

\* the arguments of verify_claim; a section that is {} is left out of
\* ai_analysis
ArgsOf(b) ==
    [claim_amount |-> b["claim_amount"],
     ai_analysis  |-> [k \in { x \in FactSections : DOMAIN b[x] # {} } |-> b[k]],
     policy_data  |-> b["policy_data"],
     history      |-> b["history"]]

\* a base bundle with at most two of its dimensions replaced
Around(base) ==
    UNION { { [[base EXCEPT ![d1] = v1] EXCEPT ![d2] = v2] :
                v1 \in Values(d1), v2 \in Values(d2) } :
            d1 \in Dimensions, d2 \in Dimensions }

\* a section every key of which holds null
AllNull(d) ==
    CASE d = "exif_metadata"           ->
            [timestamp |-> NoneStr, location_name |-> NoneStr, gps_coordinates |-> NoneDict]
      [] d = "forensic_indicators"     ->
            [is_screen_recapture |-> "None", is_blurry |-> "None", image_quality |-> NoneStr]
      [] d = "authenticity_indicators" ->
            [stock_photo_likelihood |-> NoneStr, editing_detected |-> "None"]
      [] d = "vehicle_identification"  ->
            [make |-> NoneStr, model |-> NoneStr, color |-> NoneStr,
             detected_confidence |-> NoneNum, license_plate_obscured |-> "None"]
      [] d = "ocr_data"                ->
            [plate_text |-> NoneStr, confidence |-> NoneNum,
             chase_number |-> NoneStr, chase_number_confidence |-> NoneNum]
      [] d = "yolo_results"            ->
            [yolo_damage_detected |-> "None", yolo_severity |-> NoneStr]
      [] d = "damage_assessment"       ->
            [ai_damage_detected |-> "None", ai_severity |-> NoneStr,
             ai_cost_min |-> NoneNum, ai_cost_max |-> NoneNum]
      [] d = "pre_existing_indicators" -> [rust_detected |-> "None"]
      [] d = "narrative_consistency"   -> [visual_evidence_matches |-> "None"]
      [] d = "multi_image_analysis"    -> [plates_consistent |-> "None"]

\* a section some keys of which hold null
SomeNull(d) ==
    CASE d = "exif_metadata"           ->
            { [timestamp |-> T_stamp, location_name |-> NoneStr,
               gps_coordinates |-> [latitude |-> 10, longitude |-> 76]],
              [timestamp |-> T_stamp,
               gps_coordinates |-> [latitude |-> NoneNum, longitude |-> 76]] }
      [] d = "vehicle_identification"  ->
            { [VehicleOk EXCEPT !.detected_confidence = NoneNum] }
      [] d = "ocr_data"                ->
            { [plate_text |-> R_ocr, confidence |-> NoneNum,
               chase_number |-> N_ocr, chase_number_confidence |-> NoneNum] }
      [] d = "yolo_results"            ->
            { [yolo_damage_detected |-> "True", yolo_severity |-> NoneStr] }
      [] d = "damage_assessment"       ->
            { [ai_damage_detected |-> "True", ai_severity |-> NoneStr,
               ai_cost_min |-> NoneNum, ai_cost_max |-> NoneNum],
              [DamageOk EXCEPT !.ai_cost_min = NoneNum],
              [DamageOk EXCEPT !.ai_cost_min = 60000, !.ai_cost_max = NoneNum] }
      [] OTHER                         -> {}

\* the null forms of a section: the section is null, or keys of it are
NullKeys(d) == {NoneDict, AllNull(d)} \cup SomeNull(d)

\* every section is present and every key of it holds null
NullBundle ==
    [d \in Dimensions |->
        CASE d = "policy_data"  -> PolicyOk
          [] d = "history"      -> <<>>
          [] d = "claim_amount" -> 15000
          [] OTHER              -> AllNull(d)]

\* every section holds null
NoneBundle ==
    [d \in Dimensions |->
        CASE d = "policy_data"  -> PolicyOk
          [] d = "history"      -> <<>>
          [] d = "claim_amount" -> 0
          [] OTHER              -> NoneDict]

\* policy records with gaps: no key at all, no status, every key null
NoStatusPolicy == [k \in DOMAIN PolicyOk \ {"status"} |-> PolicyOk[k]]
NullPolicy ==
    [vehicle_make |-> NoneStr, vehicle_model |-> NoneStr, vehicle_color |-> NoneStr,
     vehicle_registration |-> NoneStr, chase_number |-> NoneStr, status |-> NoneStr,
     plan_coverage |-> NoneNum, location |-> NoneStr]
PolicyGaps == { EmptyDict, NoStatusPolicy, NullPolicy }

\* prior claims with gaps: every key null, no key at all
NullPrior == [status |-> NoneStr, created_at |-> BadDate, vehicle_registration |-> NoneStr]
PriorGaps == { <<NullPrior>>, <<EmptyDict>> }

\* arguments with absent or null sections and keys
NullInputs ==
    UNION { { ArgsOf([base EXCEPT ![d] = v]) :
                base \in {CleanBundle, EmptyBundle}, v \in NullKeys(d) } :
            d \in FactSections }
    \cup { ArgsOf([base EXCEPT !["policy_data"] = v]) :
        base \in {CleanBundle, EmptyBundle, NullBundle, NoneBundle},
        v \in PolicyGaps \cup {PolicyOk} }
    \cup { ArgsOf([base EXCEPT !["history"] = v]) :
        base \in {CleanBundle, NullBundle, NoneBundle}, v \in PriorGaps }

\* arguments whose policy_data is None
NonePolicyInputs ==
    { ArgsOf([base EXCEPT !["policy_data"] = NoneDict]) :
        base \in {CleanBundle, EmptyBundle} }

\* the arguments a first call on an engine is made with
Inputs ==
    { ArgsOf(b) : b \in Around(CleanBundle) \cup Around(EmptyBundle) \cup {WorstBundle} }
    \cup NullInputs \cup NonePolicyInputs

\* the arguments a later call on the same engine is made with: the two base
\* bundles, a policy about to expire, a prior claim about to leave the
\* duplicate window, a recaptured screen
ReuseInputs ==
    { ArgsOf(CleanBundle), ArgsOf(EmptyBundle),
      ArgsOf([CleanBundle EXCEPT !["policy_data"] = ExpiringPolicy]),
      ArgsOf([CleanBundle EXCEPT !["history"] = <<AgeingClaim>>]),
      ArgsOf([EmptyBundle EXCEPT !["forensic_indicators"] = ScreenRecapture]) }

\* the arguments of two callers that share an engine
ConcurrentInputs ==
    { ArgsOf(CleanBundle),
      ArgsOf([EmptyBundle EXCEPT !["forensic_indicators"] = ScreenRecapture]) }

(***************************************************************************)
(* The repair cost estimator (server/app/services/                         *)
(* repair_estimator_service.py).  A float rate is the fraction num / den;  *)
(* the icon of a part and vehicle_info are display texts and are left out. *)
(***************************************************************************)
\* USD_TO_INR = 84.0
USD_TO_INR == [num |-> 84, den |-> 1]

\* the dict in its order of insertion
PART_PRICE_TABLE_USD ==
    <<
      [key |-> <<"f","r","o","n","t","_","b","u","m","p","e","r">>,
       name |-> "Front Bumper", min |-> 300, max |-> 900],
      [key |-> <<"r","e","a","r","_","b","u","m","p","e","r">>,
       name |-> "Rear Bumper", min |-> 250, max |-> 800],
      [key |-> <<"h","o","o","d">>,
       name |-> "Hood", min |-> 400, max |-> 1200],
      [key |-> <<"t","r","u","n","k">>,
       name |-> "Trunk Lid", min |-> 300, max |-> 900],
      [key |-> <<"t","r","u","n","k","_","l","i","d">>,
       name |-> "Trunk Lid", min |-> 300, max |-> 900],
      [key |-> <<"f","e","n","d","e","r","_","f","l">>,
       name |-> "Front Left Fender", min |-> 200, max |-> 600],
      [key |-> <<"f","e","n","d","e","r","_","f","r">>,
       name |-> "Front Right Fender", min |-> 200, max |-> 600],
      [key |-> <<"f","e","n","d","e","r","_","r","l">>,
       name |-> "Rear Left Fender", min |-> 250, max |-> 700],
      [key |-> <<"f","e","n","d","e","r","_","r","r">>,
       name |-> "Rear Right Fender", min |-> 250, max |-> 700],
      [key |-> <<"d","o","o","r","_","f","l">>,
       name |-> "Front Left Door", min |-> 300, max |-> 900],
      [key |-> <<"d","o","o","r","_","f","r">>,
       name |-> "Front Right Door", min |-> 300, max |-> 900],
      [key |-> <<"d","o","o","r","_","r","l">>,
       name |-> "Rear Left Door", min |-> 300, max |-> 900],
      [key |-> <<"d","o","o","r","_","r","r">>,
       name |-> "Rear Right Door", min |-> 300, max |-> 900],
      [key |-> <<"r","o","o","f">>,
       name |-> "Roof Panel", min |-> 800, max |-> 2500],
      [key |-> <<"q","u","a","r","t","e","r","_","p","a","n","e","l","_","l">>,
       name |-> "Left Quarter Panel", min |-> 400, max |-> 1200],
      [key |-> <<"q","u","a","r","t","e","r","_","p","a","n","e","l","_","r">>,
       name |-> "Right Quarter Panel", min |-> 400, max |-> 1200],
      [key |-> <<"w","i","n","d","s","h","i","e","l","d">>,
       name |-> "Windshield", min |-> 200, max |-> 600],
      [key |-> <<"r","e","a","r","_","w","i","n","d","s","h","i","e","l","d">>,
       name |-> "Rear Windshield", min |-> 150, max |-> 500],
      [key |-> <<"w","i","n","d","o","w","_","f","l">>,
       name |-> "Front Left Window", min |-> 100, max |-> 350],
      [key |-> <<"w","i","n","d","o","w","_","f","r">>,
       name |-> "Front Right Window", min |-> 100, max |-> 350],
      [key |-> <<"h","e","a","d","l","i","g","h","t","_","l">>,
       name |-> "Left Headlight Assembly", min |-> 150, max |-> 500],
      [key |-> <<"h","e","a","d","l","i","g","h","t","_","r">>,
       name |-> "Right Headlight Assembly", min |-> 150, max |-> 500],
      [key |-> <<"t","a","i","l","l","i","g","h","t","_","l">>,
       name |-> "Left Taillight Assembly", min |-> 100, max |-> 400],
      [key |-> <<"t","a","i","l","l","i","g","h","t","_","r">>,
       name |-> "Right Taillight Assembly", min |-> 100, max |-> 400],
      [key |-> <<"g","r","i","l","l","e">>,
       name |-> "Front Grille", min |-> 100, max |-> 400],
      [key |-> <<"s","i","d","e","_","m","i","r","r","o","r","_","l">>,
       name |-> "Left Side Mirror", min |-> 80, max |-> 250],
      [key |-> <<"s","i","d","e","_","m","i","r","r","o","r","_","r">>,
       name |-> "Right Side Mirror", min |-> 80, max |-> 250],
      [key |-> <<"r","a","d","i","a","t","o","r">>,
       name |-> "Radiator", min |-> 200, max |-> 600],
      [key |-> <<"f","r","a","m","e">>,
       name |-> "Frame / Chassis", min |-> 1000, max |-> 5000],
      [key |-> <<"e","n","g","i","n","e">>,
       name |-> "Engine Components", min |-> 1500, max |-> 8000],
      [key |-> <<"s","u","s","p","e","n","s","i","o","n">>,
       name |-> "Suspension", min |-> 300, max |-> 1500],
      [key |-> <<"a","x","l","e">>,
       name |-> "Axle", min |-> 400, max |-> 1200]
    >>

PANEL_ALIASES ==
    <<
      <<<<"b","u","m","p","e","r","_","f","r","o","n","t">>,
        <<"f","r","o","n","t","_","b","u","m","p","e","r">>>>,
      <<<<"b","u","m","p","e","r","_","r","e","a","r">>,
        <<"r","e","a","r","_","b","u","m","p","e","r">>>>,
      <<<<"f","r","o","n","t"," ","b","u","m","p","e","r">>,
        <<"f","r","o","n","t","_","b","u","m","p","e","r">>>>,
      <<<<"r","e","a","r"," ","b","u","m","p","e","r">>,
        <<"r","e","a","r","_","b","u","m","p","e","r">>>>,
      <<<<"b","o","n","n","e","t">>,
        <<"h","o","o","d">>>>,
      <<<<"f","r","o","n","t","_","l","e","f","t","_","d","o","o","r">>,
        <<"d","o","o","r","_","f","l">>>>,
      <<<<"f","r","o","n","t","_","r","i","g","h","t","_","d","o","o","r">>,
        <<"d","o","o","r","_","f","r">>>>,
      <<<<"r","e","a","r","_","l","e","f","t","_","d","o","o","r">>,
        <<"d","o","o","r","_","r","l">>>>,
      <<<<"r","e","a","r","_","r","i","g","h","t","_","d","o","o","r">>,
        <<"d","o","o","r","_","r","r">>>>,
      <<<<"f","r","o","n","t","_","l","e","f","t","_","f","e","n","d","e","r">>,
        <<"f","e","n","d","e","r","_","f","l">>>>,
      <<<<"f","r","o","n","t","_","r","i","g","h","t","_","f","e","n","d","e","r">>,
        <<"f","e","n","d","e","r","_","f","r">>>>,
      <<<<"l","e","f","t","_","f","e","n","d","e","r">>,
        <<"f","e","n","d","e","r","_","f","l">>>>,
      <<<<"r","i","g","h","t","_","f","e","n","d","e","r">>,
        <<"f","e","n","d","e","r","_","f","r">>>>,
      <<<<"l","e","f","t","_","q","u","a","r","t","e","r","_","p","a","n","e","l">>,
        <<"q","u","a","r","t","e","r","_","p","a","n","e","l","_","l">>>>,
      <<<<"r","i","g","h","t","_","q","u","a","r","t","e","r","_","p","a","n","e","l">>,
        <<"q","u","a","r","t","e","r","_","p","a","n","e","l","_","r">>>>,
      <<<<"l","e","f","t","_","h","e","a","d","l","i","g","h","t">>,
        <<"h","e","a","d","l","i","g","h","t","_","l">>>>,
      <<<<"r","i","g","h","t","_","h","e","a","d","l","i","g","h","t">>,
        <<"h","e","a","d","l","i","g","h","t","_","r">>>>,
      <<<<"l","e","f","t","_","t","a","i","l","l","i","g","h","t">>,
        <<"t","a","i","l","l","i","g","h","t","_","l">>>>,
      <<<<"r","i","g","h","t","_","t","a","i","l","l","i","g","h","t">>,
        <<"t","a","i","l","l","i","g","h","t","_","r">>>>,
      <<<<"l","e","f","t","_","m","i","r","r","o","r">>,
        <<"s","i","d","e","_","m","i","r","r","o","r","_","l">>>>,
      <<<<"r","i","g","h","t","_","m","i","r","r","o","r">>,
        <<"s","i","d","e","_","m","i","r","r","o","r","_","r">>>>,
      <<<<"f","r","o","n","t","_","w","i","n","d","s","h","i","e","l","d">>,
        <<"w","i","n","d","s","h","i","e","l","d">>>>,
      <<<<"b","a","c","k","_","w","i","n","d","s","h","i","e","l","d">>,
        <<"r","e","a","r","_","w","i","n","d","s","h","i","e","l","d">>>>
    >>

\* str.replace(" ", "_")
SpaceToUnderscore(s) == [i \in 1..Len(s) |-> IF s[i] = " " THEN "_" ELSE s[i]]

\* key in PART_PRICE_TABLE_USD, PART_PRICE_TABLE_USD[key]
TableKeys == { PART_PRICE_TABLE_USD[i].key : i \in 1..Len(PART_PRICE_TABLE_USD) }
TableEntry(key) ==
    PART_PRICE_TABLE_USD[CHOOSE i \in 1..Len(PART_PRICE_TABLE_USD) :
                            PART_PRICE_TABLE_USD[i].key = key]

\* key in PANEL_ALIASES, PANEL_ALIASES[key]
AliasKeys == { PANEL_ALIASES[i][1] : i \in 1..Len(PANEL_ALIASES) }
AliasOf(key) ==
    PANEL_ALIASES[CHOOSE i \in 1..Len(PANEL_ALIASES) : PANEL_ALIASES[i][1] = key][2]

\* the places in the table whose key holds `key` or is held by it
PartialMatches(key) ==
    { i \in 1..Len(PART_PRICE_TABLE_USD) :
        \/ StrIn(key, PART_PRICE_TABLE_USD[i].key)
        \/ StrIn(PART_PRICE_TABLE_USD[i].key, key) }

\* _resolve_panel_key(panel): the canonical key, or NoneStr
ResolvePanelKey(panel) ==
    IF panel = NoneStr \/ panel = <<>> THEN NoneStr
    ELSE LET key == SpaceToUnderscore(StrLower(StrStrip(panel)))
             partial == PartialMatches(key)
         IN  IF key \in TableKeys THEN key
             ELSE IF key \in AliasKeys THEN AliasOf(key)
             ELSE IF partial # {}
             THEN PART_PRICE_TABLE_USD[CHOOSE i \in partial : \A j \in partial : i <= j].key
             ELSE NoneStr

\* round(n / d) of a float that is not negative: to the nearest integer, a half
\* to the even one
Round(n, d) ==
    LET q == n \div d
        r == n % d
    IN  IF 2 * r < d THEN q
        ELSE IF 2 * r > d THEN q + 1
        ELSE IF q % 2 = 0 THEN q ELSE q + 1

\* round(usd * usd_to_inr)
ToInr(usd, usd_to_inr) == Round(usd * usd_to_inr.num, usd_to_inr.den)

\* breakdown, unrecognized and seen_keys before the loop
NoParts == [breakdown |-> <<>>, unrecognized |-> <<>>, seen_keys |-> {}]

\* one pass of the loop that prices a part whose key was seen before
EstimateStep_NoSeenKeys(st, panel, usd_to_inr) ==
    LET key == ResolvePanelKey(panel)
        info == TableEntry(key)
    IN  IF key # NoneStr
        THEN [st EXCEPT !.breakdown = Append(@,
                 [panel_key |-> key, part |-> info.name,
                  usd_min |-> info.min, usd_max |-> info.max,
                  inr_min |-> ToInr(info.min, usd_to_inr),
                  inr_max |-> ToInr(info.max, usd_to_inr)])]
        ELSE [st EXCEPT !.unrecognized = Append(@, panel)]

\* one pass of the loop `for panel in damaged_panels`
EstimateStep(st, panel, usd_to_inr) ==
    LET key == ResolvePanelKey(panel)
        info == TableEntry(key)
    IN  IF key # NoneStr /\ key \notin st.seen_keys
        THEN [st EXCEPT !.seen_keys = @ \cup {key},
                        !.breakdown = Append(@,
                            [panel_key |-> key, part |-> info.name,
                             usd_min |-> info.min, usd_max |-> info.max,
                             inr_min |-> ToInr(info.min, usd_to_inr),
                             inr_max |-> ToInr(info.max, usd_to_inr)])]
        ELSE IF key = NoneStr
        THEN [st EXCEPT !.unrecognized = Append(@, panel)]
        ELSE st

\* the loop `for panel in damaged_panels`
RECURSIVE EstimateLoop(_, _, _)
EstimateLoop(panels, st, usd_to_inr) ==
    IF panels = <<>> THEN st
    ELSE EstimateLoop(Tail(panels), EstimateStep(st, Head(panels), usd_to_inr), usd_to_inr)

\* sum(p[field] for p in breakdown)
RECURSIVE SumOf(_, _)
SumOf(breakdown, field) ==
    IF breakdown = <<>> THEN 0
    ELSE Head(breakdown)[field] + SumOf(Tail(breakdown), field)

\* estimate_repair_cost(damaged_panels, usd_to_inr=usd_to_inr)
EstimateRepairCost(damaged_panels, usd_to_inr) ==
    IF damaged_panels = <<>>
    THEN [breakdown |-> <<>>,
          total_usd_min |-> 0, total_usd_max |-> 0,
          total_inr_min |-> 0, total_inr_max |-> 0,
          usd_to_inr_rate |-> usd_to_inr,
          unrecognized_panels |-> <<>>]
    ELSE LET st == EstimateLoop(damaged_panels, NoParts, usd_to_inr)
             total_usd_min == SumOf(st.breakdown, "usd_min")
             total_usd_max == SumOf(st.breakdown, "usd_max")
         IN  [breakdown |-> st.breakdown,
              total_usd_min |-> total_usd_min, total_usd_max |-> total_usd_max,
              total_inr_min |-> ToInr(total_usd_min, usd_to_inr),
              total_inr_max |-> ToInr(total_usd_max, usd_to_inr),
              usd_to_inr_rate |-> usd_to_inr,
              unrecognized_panels |-> st.unrecognized]

\* the panel names a caller passes: a key, a key in capitals with a blank, two
\* aliases, the key behind one of them, a part of a key, a blank, an unknown
\* name, the empty name
P_front_bumper == <<"f","r","o","n","t","_","b","u","m","p","e","r">>
P_Front_Bumper == <<"F","r","o","n","t"," ","B","u","m","p","e","r">>
P_bonnet == <<"b","o","n","n","e","t">>
P_hood == <<"h","o","o","d">>
P_door == <<"d","o","o","r">>
P_blank == <<" ">>
P_spoiler == <<"s","p","o","i","l","e","r">>
P_left_headlight == <<"l","e","f","t","_","h","e","a","d","l","i","g","h","t">>
P_rear_windshield == <<"r","e","a","r","_","w","i","n","d","s","h","i","e","l","d">>
PanelNames ==
    { P_front_bumper, P_Front_Bumper, P_bonnet, P_hood, P_door, P_blank,
      P_spoiler, <<>>, P_left_headlight, P_rear_windshield }

\* the longest damaged_panels
MaxPanels == 3

RECURSIVE PanelLists(_)
PanelLists(n) ==
    IF n = 0 THEN { <<>> }
    ELSE PanelLists(n - 1)
         \cup { Append(l, p) : l \in { m \in PanelLists(n - 1) : Len(m) = n - 1 },
                               p \in PanelNames }

\* the rates a caller passes: the default, and 84.25
Rates == { USD_TO_INR, [num |-> 337, den |-> 4] }

(***************************************************************************)
(* The state machine                                                       *)
(*                                                                         *)
(* One engine (one VerificationRules object) and the callers that use it.  *)
(* A caller is at "idle" before its first call, at "c1".."c16" when the    *)
(* check of that number is the next statement of verify_claim, at "decide" *)
(* before _make_final_decision, and at "done" when verify_claim returned.  *)
(***************************************************************************)
VARIABLES
    engine,     \* self._passed, self._failed, self._raw_score
    now,        \* the wall clock, in days
    callers,    \* the callers that use the engine
    pc,         \* each caller's place in verify_claim
    args,       \* each caller's arguments of verify_claim
    today15,    \* the date _check_15 read in the caller's run
    now16,      \* the time _check_16 read in the caller's run
    result,     \* the VerificationResult the caller's last call returned
    prev,       \* the result of the call before, when made with the same arguments
    served,     \* the number of calls of verify_claim made on the engine
    last,       \* the caller that ran last (0: none yet)
    switches,   \* the number of times the scheduler changed caller
    estimator,  \* a call of estimate_repair_cost: its place, arguments and result
    task,       \* a run of process_claim_ai_analysis: its place and local values
    session,    \* the rows as the task's database session holds them
    db          \* the rows as committed to the database

engineVars == <<engine, now, callers, pc, args, today15, now16, result, prev,
                served, last, switches>>
otherVars == <<estimator, task, session, db>>
vars == <<engineVars, otherVars>>

Callers == {1, 2}
NoArgs == EmptyDict
NoResult == EmptyDict

\* no call of estimate_repair_cost is made
NoEstimate ==
    [pc |-> "idle", damaged_panels |-> <<>>, usd_to_inr |-> USD_TO_INR,
     estimate |-> EmptyDict]

\* no task runs, no row is stored
NoTask == [pc |-> "idle", input |-> EmptyDict, ai_result |-> EmptyDict,
           forensic_fields |-> EmptyDict, began |-> FALSE]
NoRows == [claim |-> NoneDict, forensic |-> NoneDict]

\* estimator and task at rest
OthersIdle ==
    /\ estimator = NoEstimate
    /\ task = NoTask
    /\ session = NoRows
    /\ db = NoRows

InitWith(cs) ==
    /\ OthersIdle
    /\ engine = FreshAcc
    /\ now = 0
    /\ callers = cs
    /\ pc = [t \in Callers |-> "idle"]
    /\ args = [t \in Callers |-> NoArgs]
    /\ today15 = [t \in Callers |-> 0]
    /\ now16 = [t \in Callers |-> 0]
    /\ result = [t \in Callers |-> NoResult]
    /\ prev = [t \in Callers |-> NoResult]
    /\ served = 0
    /\ last = 0
    /\ switches = 0

\* __init__: one caller
Init == InitWith({1})

\* __init__: two callers share the engine
InitConcurrent == InitWith(Callers)

\* the scheduler lets caller t run
Scheduled(t) ==
    /\ t \in callers
    /\ (last \in {0, t} \/ switches < MaxSwitches)
    /\ last' = t
    /\ switches' = IF last \in {0, t} THEN switches ELSE switches + 1
    /\ UNCHANGED otherVars

\* the clock advances by a day
Tick ==
    /\ now < MaxDay
    /\ now' = now + 1
    /\ UNCHANGED <<engine, callers, pc, args, today15, now16, result, prev,
                   served, last, switches>>
    /\ UNCHANGED otherVars

\* _reset that leaves self._raw_score as it is
Reset_KeepScore == [FreshAcc EXCEPT !.raw = engine.raw]

\* self._reset()
Reset == FreshAcc

\* verify_claim is entered: self._reset()
VerifyClaim(t) ==
    /\ Scheduled(t)
    /\ pc[t] \in {"idle", "done", "raised"}
    /\ served < MaxCalls
    /\ served' = served + 1
    /\ \E a \in (IF callers # {1} THEN ConcurrentInputs
                 ELSE IF served = 0 THEN Inputs ELSE ReuseInputs) :
        /\ args' = [args EXCEPT ![t] = a]
        /\ prev' = [prev EXCEPT ![t] = IF a = args[t] THEN result[t] ELSE NoResult]
    /\ engine' = Reset
    /\ pc' = [pc EXCEPT ![t] = "c1"]
    /\ result' = [result EXCEPT ![t] = NoResult]
    /\ today15' = [today15 EXCEPT ![t] = 0]
    /\ now16' = [now16 EXCEPT ![t] = 0]
    /\ UNCHANGED <<now, callers>>

\* a verify_claim that goes to the decision once a CRITICAL failure is recorded
Statement_StopOnCritical(t, from, to, acc) ==
    /\ Scheduled(t)
    /\ pc[t] = from
    /\ engine' = acc
    /\ pc' = [pc EXCEPT ![t] = IF CountSeverity(acc.failed, "CRITICAL") > 0
                                THEN "decide" ELSE to]
    /\ UNCHANGED <<now, callers, args, result, prev, served>>

\* one statement of verify_claim: the check at `from` leaves the accumulators `acc`
Statement(t, from, to, acc) ==
    /\ Scheduled(t)
    /\ pc[t] = from
    /\ engine' = acc
    /\ pc' = [pc EXCEPT ![t] = to]
    /\ UNCHANGED <<now, callers, args, result, prev, served>>

\* an exception leaves the check at `from` and verify_claim; the accumulators
\* stay as they are
Raise(t, from) ==
    /\ Scheduled(t)
    /\ pc[t] = from
    /\ pc' = [pc EXCEPT ![t] = "raised"]
    /\ UNCHANGED <<engine, now, callers, args, result, prev, served>>

RunCheck1(t) ==
    /\ pc[t] = "c1"
    /\ IF Check1Raises(args[t].ai_analysis)
       THEN Raise(t, "c1") /\ UNCHANGED <<today15, now16>>
       ELSE /\ Statement(t, "c1", "c2", Check1(engine, args[t].ai_analysis))
            /\ UNCHANGED <<today15, now16>>

RunCheck2(t) ==
    /\ pc[t] = "c2"
    /\ IF Check2Raises(args[t].ai_analysis, args[t].policy_data)
       THEN Raise(t, "c2") /\ UNCHANGED <<today15, now16>>
       ELSE /\ Statement(t, "c2", "c3", Check2(engine, args[t].ai_analysis, args[t].policy_data))
            /\ UNCHANGED <<today15, now16>>

RunCheck3(t) ==
    /\ pc[t] = "c3"
    /\ IF Check3Raises(args[t].ai_analysis)
       THEN Raise(t, "c3") /\ UNCHANGED <<today15, now16>>
       ELSE /\ Statement(t, "c3", "c4", Check3(engine, args[t].ai_analysis))
            /\ UNCHANGED <<today15, now16>>

RunCheck4(t) ==
    /\ pc[t] = "c4"
    /\ IF Check4Raises(args[t].ai_analysis)
       THEN Raise(t, "c4") /\ UNCHANGED <<today15, now16>>
       ELSE /\ Statement(t, "c4", "c5", Check4(engine, args[t].ai_analysis))
            /\ UNCHANGED <<today15, now16>>

RunCheck5(t) ==
    /\ pc[t] = "c5"
    /\ IF Check5Raises(args[t].ai_analysis, args[t].policy_data)
       THEN Raise(t, "c5") /\ UNCHANGED <<today15, now16>>
       ELSE /\ Statement(t, "c5", "c6", Check5(engine, args[t].ai_analysis, args[t].policy_data))
            /\ UNCHANGED <<today15, now16>>

RunCheck6(t) ==
    /\ pc[t] = "c6"
    /\ IF Check6Raises(args[t].ai_analysis, args[t].policy_data)
       THEN Raise(t, "c6") /\ UNCHANGED <<today15, now16>>
       ELSE /\ Statement(t, "c6", "c7", Check6(engine, args[t].ai_analysis, args[t].policy_data))
            /\ UNCHANGED <<today15, now16>>

RunCheck7(t) ==
    /\ pc[t] = "c7"
    /\ IF Check7Raises(args[t].ai_analysis, args[t].policy_data)
       THEN Raise(t, "c7") /\ UNCHANGED <<today15, now16>>
       ELSE /\ Statement(t, "c7", "c8", Check7(engine, args[t].ai_analysis, args[t].policy_data))
            /\ UNCHANGED <<today15, now16>>

RunCheck8(t) ==
    /\ pc[t] = "c8"
    /\ IF Check8Raises(args[t].ai_analysis)
       THEN Raise(t, "c8") /\ UNCHANGED <<today15, now16>>
       ELSE /\ Statement(t, "c8", "c9", Check8(engine, args[t].ai_analysis))
            /\ UNCHANGED <<today15, now16>>

RunCheck9(t) ==
    /\ pc[t] = "c9"
    /\ IF Check9Raises(args[t].ai_analysis)
       THEN Raise(t, "c9") /\ UNCHANGED <<today15, now16>>
       ELSE /\ Statement(t, "c9", "c10", Check9(engine, args[t].ai_analysis))
            /\ UNCHANGED <<today15, now16>>

RunCheck10(t) ==
    /\ pc[t] = "c10"
    /\ IF Check10Raises(args[t].ai_analysis)
       THEN Raise(t, "c10") /\ UNCHANGED <<today15, now16>>
       ELSE /\ Statement(t, "c10", "c11", Check10(engine, args[t].ai_analysis))
            /\ UNCHANGED <<today15, now16>>

RunCheck11(t) ==
    /\ pc[t] = "c11"
    /\ IF Check11Raises(args[t].ai_analysis)
       THEN Raise(t, "c11") /\ UNCHANGED <<today15, now16>>
       ELSE /\ Statement(t, "c11", "c12", Check11(engine, args[t].ai_analysis))
            /\ UNCHANGED <<today15, now16>>

RunCheck12(t) ==
    /\ pc[t] = "c12"
    /\ IF Check12Raises(args[t].ai_analysis)
       THEN Raise(t, "c12") /\ UNCHANGED <<today15, now16>>
       ELSE /\ Statement(t, "c12", "c13", Check12(engine, args[t].ai_analysis))
            /\ UNCHANGED <<today15, now16>>

RunCheck13(t) ==
    /\ pc[t] = "c13"
    /\ IF Check13Raises(args[t].claim_amount)
       THEN Raise(t, "c13") /\ UNCHANGED <<today15, now16>>
       ELSE /\ Statement(t, "c13", "c14", Check13(engine, args[t].claim_amount))
            /\ UNCHANGED <<today15, now16>>

RunCheck14(t) ==
    /\ pc[t] = "c14"
    /\ IF Check14Raises(args[t].claim_amount, args[t].ai_analysis)
       THEN Raise(t, "c14") /\ UNCHANGED <<today15, now16>>
       ELSE /\ Statement(t, "c14", "c15", Check14(engine, args[t].claim_amount, args[t].ai_analysis))
            /\ UNCHANGED <<today15, now16>>

RunCheck15(t) ==
    /\ pc[t] = "c15"
    /\ IF Check15Raises(args[t].policy_data, args[t].claim_amount)
       THEN Raise(t, "c15") /\ UNCHANGED <<today15, now16>>
       ELSE /\ Statement(t, "c15", "c16",
                         Check15(engine, args[t].policy_data, args[t].claim_amount, now))
            /\ today15' = [today15 EXCEPT ![t] = now]
            /\ UNCHANGED now16

RunCheck16(t) ==
    /\ pc[t] = "c16"
    /\ IF Check16Raises(args[t].ai_analysis, args[t].policy_data, args[t].history)
       THEN Raise(t, "c16") /\ UNCHANGED <<today15, now16>>
       ELSE /\ Statement(t, "c16", "decide",
                         Check16(engine, args[t].ai_analysis, args[t].policy_data,
                                 args[t].history, now))
            /\ now16' = [now16 EXCEPT ![t] = now]
            /\ UNCHANGED today15

\* return self._make_final_decision(claim_amount)
Decide(t) ==
    /\ Scheduled(t)
    /\ pc[t] = "decide"
    /\ result' = [result EXCEPT ![t] = MakeFinalDecision(engine, now)]
    /\ pc' = [pc EXCEPT ![t] = "done"]
    /\ UNCHANGED <<engine, now, callers, args, today15, now16, prev, served>>

Next ==
    \/ Tick
    \/ \E t \in Callers :
        \/ VerifyClaim(t)
        \/ RunCheck1(t) \/ RunCheck2(t) \/ RunCheck3(t) \/ RunCheck4(t)
        \/ RunCheck5(t) \/ RunCheck6(t) \/ RunCheck7(t) \/ RunCheck8(t)
        \/ RunCheck9(t) \/ RunCheck10(t) \/ RunCheck11(t) \/ RunCheck12(t)
        \/ RunCheck13(t) \/ RunCheck14(t) \/ RunCheck15(t) \/ RunCheck16(t)
        \/ Decide(t)

\* one caller, calls made one after another
Spec == Init /\ [][Next]_vars

\* two callers on one engine, their statements interleaved
SpecConcurrent == InitConcurrent /\ [][Next]_vars

(***************************************************************************)
(* The estimator as a state machine: a call with its arguments, then its   *)
(* return.                                                                 *)
(***************************************************************************)
\* the engine at rest
EngineIdle ==
    /\ engine = FreshAcc
    /\ now = 0
    /\ callers = {1}
    /\ pc = [t \in Callers |-> "idle"]
    /\ args = [t \in Callers |-> NoArgs]
    /\ today15 = [t \in Callers |-> 0]
    /\ now16 = [t \in Callers |-> 0]
    /\ result = [t \in Callers |-> NoResult]
    /\ prev = [t \in Callers |-> NoResult]
    /\ served = 0
    /\ last = 0
    /\ switches = 0

\* estimate_repair_cost is called with a list of panel names and a rate
InitEstimator ==
    /\ EngineIdle
    /\ task = NoTask
    /\ session = NoRows
    /\ db = NoRows
    /\ estimator \in { [pc |-> "called", damaged_panels |-> l, usd_to_inr |-> r,
                         estimate |-> EmptyDict] :
                            l \in PanelLists(MaxPanels), r \in Rates }

\* estimate_repair_cost runs and returns
Estimate ==
    /\ estimator.pc = "called"
    /\ estimator' = [estimator EXCEPT
                        !.pc = "returned",
                        !.estimate = EstimateRepairCost(estimator.damaged_panels,
                                                        estimator.usd_to_inr)]
    /\ UNCHANGED <<engineVars, task, session, db>>

NextEstimator == Estimate

SpecEstimator == InitEstimator /\ [][NextEstimator]_vars

(***************************************************************************)
(* The claim pipeline: the background task process_claim_ai_analysis       *)
(* (background_tasks.py), analyze_claim (ai_orchestrator.py) and           *)
(* map_forensic_to_db (forensic_mapper.py).                                *)
(*                                                                         *)
(* The perception services are the environment: an input of the task holds *)
(* the arguments they lead to for verify_claim, whether the extraction     *)
(* succeeded, and the damaged_panels it returned.  Of the claim row the    *)
(* status, the recommendation and the cost fields are kept; of the         *)
(* forensic row the fields derived from the verification and the repair    *)
(* cost are kept.  The extraction carries no estimated_cost_range_INR.     *)
(***************************************************************************)
\* an exception leaves verify_claim
VerifyRaises(a) ==
    \/ Check1Raises(a.ai_analysis)
    \/ Check2Raises(a.ai_analysis, a.policy_data)
    \/ Check3Raises(a.ai_analysis)
    \/ Check4Raises(a.ai_analysis)
    \/ Check5Raises(a.ai_analysis, a.policy_data)
    \/ Check6Raises(a.ai_analysis, a.policy_data)
    \/ Check7Raises(a.ai_analysis, a.policy_data)
    \/ Check8Raises(a.ai_analysis)
    \/ Check9Raises(a.ai_analysis)
    \/ Check10Raises(a.ai_analysis)
    \/ Check11Raises(a.ai_analysis)
    \/ Check12Raises(a.ai_analysis)
    \/ Check13Raises(a.claim_amount)
    \/ Check14Raises(a.claim_amount, a.ai_analysis)
    \/ Check15Raises(a.policy_data, a.claim_amount)
    \/ Check16Raises(a.ai_analysis, a.policy_data, a.history)

\* VerificationResult.to_dict(); confidence_score is rounded to hundredths,
\* severity_score (halves) is already exact at two decimals
ToDict(r) ==
    [status                |-> r.status,
     decision_reason       |-> r.decision_reason,
     confidence_level      |-> r.confidence_level,
     confidence_score      |-> Round(r.confidence_score.num * 100, r.confidence_score.den),
     auto_approved         |-> r.auto_approved,
     requires_human_review |-> r.requires_human_review,
     requires_monitoring   |-> r.requires_monitoring,
     passed_checks_count   |-> Len(r.passed_checks),
     failed_checks_count   |-> Len(r.failed_checks),
     severity_score        |-> r.severity_score,
     passed_checks         |-> r.passed_checks,
     failed_checks         |-> r.failed_checks,
     timestamp             |-> r.timestamp]

\* policy_data or {}
OrEmptyDict(d) == IF IsNoneDict(d) THEN EmptyDict ELSE d

\* a reason that is None, the reason analyze_claim notes on an engine error
NoReason == [text |-> "None", n |-> 0]
EngineErrorReason == [text |-> "verification_engine_error", n |-> 0]

\* result["yolo_damage"] as analyze_claim initialises it
YoloNotRun == [success |-> "False", damage_detected |-> "False", severity |-> W_none]

\* the loop of step 3: the result of the first image the detector succeeds on
RECURSIVE FirstSuccess(_)
FirstSuccess(images) ==
    IF images = <<>> THEN YoloNotRun
    ELSE IF Head(images).success = "True" THEN Head(images)
    ELSE FirstSuccess(Tail(images))

\* step 3 of analyze_claim: result["yolo_damage"] after the YOLO stage; images
\* holds what detect_vehicle_damage returns for each existing image
YoloStage(yolo) ==
    IF yolo.available /\ yolo.images # <<>> THEN FirstSuccess(yolo.images) ELSE YoloNotRun

\* prepare_verification_data(extracted_data, metadata, ocr, yolo_damage): the
\* sections built from the extraction, the metadata and the OCR are given,
\* yolo_results is built from yolo_damage
PrepareVerificationData(sections, yolo_damage) ==
    [k \in DOMAIN sections \cup {"yolo_results"} |->
        IF k = "yolo_results"
        THEN [yolo_damage_detected |-> Get(yolo_damage, "damage_detected", "False"),
              yolo_severity        |-> Get(yolo_damage, "severity", W_none)]
        ELSE sections[k]]

\* analyze_claim(..., claim_amount, policy_data, claim_history): the yolo_damage,
\* the verification, the damaged_panels and the ai_reasoning of its result
AnalyzeClaim(input, claim_amount, stamp) ==
    LET yolo_damage == YoloStage(input.yolo)
        a == [claim_amount |-> claim_amount,
              ai_analysis  |-> PrepareVerificationData(input.facts.ai_analysis, yolo_damage),
              policy_data  |-> OrEmptyDict(input.facts.policy_data),
              history      |-> input.facts.history]
    IN  IF input.extraction # "success"
        THEN [yolo_damage |-> yolo_damage, verification |-> NoneDict,
              damaged_panels |-> <<>>, ai_reasoning |-> NoReason]
        ELSE IF VerifyRaises(a)
        THEN [yolo_damage |-> yolo_damage, verification |-> [error |-> "exception"],
              damaged_panels |-> input.damaged_panels,
              ai_reasoning |-> EngineErrorReason]
        ELSE LET r == VerifyFresh(a, stamp, stamp, stamp)
             IN  [yolo_damage |-> yolo_damage, verification |-> ToDict(r),
                  damaged_panels |-> input.damaged_panels,
                  ai_reasoning |-> r.decision_reason]

\* _map_status_to_fraud_probability with APPROVED mapped as analyze_claim maps it
MapStatusToFraudProbability_ApprovedLow(status) ==
    IF status = "REJECTED" THEN "HIGH"
    ELSE IF status = "FLAGGED" THEN "MEDIUM"
    ELSE "LOW"

\* _map_status_to_fraud_probability(status)
MapStatusToFraudProbability(status) ==
    IF status = "REJECTED" THEN "HIGH"
    ELSE IF status = "FLAGGED" THEN "MEDIUM"
    ELSE IF status = "APPROVED" THEN "VERY_LOW"
    ELSE "LOW"

\* map_forensic_to_db(ai_result): the verification if there is one without an
\* error, else the legacy decisions, which analyze_claim never sets
MapForensicToDb(ai_result) ==
    LET verification == ai_result.verification
        status == Get(verification, "status", "None")
        failed == Get(verification, "failed_checks", <<>>)
    IN  IF ~IsNoneDict(verification) /\ "error" \notin DOMAIN verification
        THEN [ai_recommendation        |-> status,
              fraud_probability        |-> MapStatusToFraudProbability(status),
              fraud_score              |-> [num |-> Get(verification, "severity_score", 0),
                                            den |-> 10 * ScoreScale],
              overall_confidence_score |-> Get(verification, "confidence_score", NoneNum),
              ai_risk_flags            |-> [i \in 1..Len(failed) |-> failed[i].rule_id],
              ai_reasoning             |-> Get(verification, "decision_reason", NoReason),
              human_review_priority    |->
                  IF status = "REJECTED" THEN "CRITICAL"
                  ELSE IF Get(verification, "requires_human_review", FALSE) THEN "HIGH"
                  ELSE IF status = "APPROVED" THEN "LOW"
                  ELSE "MEDIUM",
              ai_damaged_panels        |-> ai_result.damaged_panels,
              repair_cost_breakdown    |-> NoneDict]
        ELSE [ai_recommendation        |-> "None",
              fraud_probability        |-> "None",
              fraud_score              |-> NoneDict,
              overall_confidence_score |-> NoneNum,
              ai_risk_flags            |-> <<>>,
              ai_reasoning             |-> NoReason,
              human_review_priority    |-> "None",
              ai_damaged_panels        |-> ai_result.damaged_panels,
              repair_cost_breakdown    |-> NoneDict]

\* claim_amount from the claim's estimated cost, 0 without one
ClaimAmount(claim) ==
    IF NumOr(claim.estimated_cost_max, 0) # 0 THEN claim.estimated_cost_max
    ELSE IF NumOr(claim.estimated_cost_min, 0) # 0 THEN claim.estimated_cost_min
    ELSE 0

\* estimate_repair_cost raises: panel.strip() of a name that is no str
EstimateRaises(damaged_panels) ==
    \E i \in 1..Len(damaged_panels) :
        damaged_panels[i] # NoneStr /\ NoStrMethods(damaged_panels[i])

\* facts in which the make of the vehicle is no str
WrongTypeBundle ==
    [CleanBundle EXCEPT !["vehicle_identification"] = [VehicleOk EXCEPT !.make = NotStr]]

\* the facts the task is run on with each extraction outcome and panel list
PipelineFacts ==
    { ArgsOf(CleanBundle), ArgsOf(EmptyBundle), ArgsOf(WorstBundle),
      ArgsOf(WrongTypeBundle) }

\* damaged_panels of the extraction: none, names, a name that is no str
PanelInputs == { <<>>, <<P_bonnet, P_hood, P_door>>, <<P_hood, NotStr>> }

\* what detect_vehicle_damage returns for one image
YoloFailed == [success |-> "False", error |-> "failed"]
YoloFound(severity) == [success |-> "True", damage_detected |-> "True", severity |-> severity]
YoloClear == [success |-> "True", damage_detected |-> "False", severity |-> W_none]

\* the YOLO stage: detector unavailable, no images, failing on every image,
\* succeeding on the second image, finding nothing
YoloStages ==
    { [available |-> FALSE, images |-> <<YoloFound(W_minor)>>],
      [available |-> TRUE, images |-> <<>>],
      [available |-> TRUE, images |-> <<YoloFailed, YoloFailed>>],
      [available |-> TRUE, images |-> <<YoloFailed, YoloFound(W_minor)>>],
      [available |-> TRUE, images |-> <<YoloFound(W_severe), YoloClear>>],
      [available |-> TRUE, images |-> <<YoloClear>>] }

\* the YOLO stage that yields the yolo_results of given facts: one image the
\* detector succeeds on, or no detector when the facts hold no detection
YoloStageOf(a) ==
    LET y == Section(a.ai_analysis, "yolo_results")
    IN  IF Get(y, "yolo_damage_detected", "None") # "None"
           /\ Get(y, "yolo_severity", NoneStr) # NoneStr
        THEN [available |-> TRUE,
              images |-> <<[success |-> "True",
                            damage_detected |-> y["yolo_damage_detected"],
                            severity |-> y["yolo_severity"]]>>]
        ELSE [available |-> FALSE, images |-> <<>>]

\* the status of the claim the task is started for: "processing" as upload_claim
\* creates it, "pending" when the task is triggered for a stored claim
ClaimStatuses == { "processing", "pending" }

\* the inputs of a task; extraction is what the calls of analyze_claim do:
\* the extraction succeeds, reports a failure, or a call raises
PipelineInputs ==
    { [facts |-> a, extraction |-> "success", damaged_panels |-> <<>>,
       yolo |-> YoloStageOf(a), status |-> "processing"] : a \in Inputs }
    \cup { [facts |-> a, extraction |-> e, damaged_panels |-> p, yolo |-> y,
             status |-> st] :
            a \in PipelineFacts, e \in {"success", "failed", "raised"},
            p \in PanelInputs, y \in YoloStages, st \in ClaimStatuses }

\* the claim row before the task: its cost fields hold the claimed amount
ClaimRow(input) ==
    [status |-> input.status, ai_recommendation |-> "None",
     estimated_cost_min |-> NoneNum,
     estimated_cost_max |-> IF input.facts.claim_amount = 0 THEN NoneNum
                            ELSE input.facts.claim_amount]

\* the task is queued for a claim that has no forensic row
InitPipeline ==
    /\ EngineIdle
    /\ estimator = NoEstimate
    /\ \E input \in PipelineInputs :
        /\ task = [pc |-> "queued", input |-> input, ai_result |-> EmptyDict,
                   forensic_fields |-> EmptyDict, began |-> FALSE]
        /\ session = [claim |-> ClaimRow(input), forensic |-> NoneDict]
        /\ db = [claim |-> ClaimRow(input), forensic |-> NoneDict]

\* db.commit(): the rows of the session are written, or the commit raises and
\* the database keeps what it held
Commit(rows, pcOk, began) ==
    \E ok \in BOOLEAN :
        /\ session' = rows
        /\ db' = IF ok THEN rows ELSE db
        /\ task' = [task EXCEPT !.pc = IF ok THEN pcOk ELSE "except",
                                !.began = IF ok THEN began ELSE task.began]

\* claim.status = "processing"; db.commit()
BeginProcessing ==
    /\ task.pc = "queued"
    /\ Commit([session EXCEPT !.claim.status = "processing"], "analyze", TRUE)
    /\ UNCHANGED <<engineVars, estimator>>

\* ai_result = ai_orchestrator.analyze_claim(...)
Analyze ==
    /\ task.pc = "analyze"
    /\ task' = IF task.input.extraction = "raised"
               THEN [task EXCEPT !.pc = "except"]
               ELSE [task EXCEPT
                        !.pc = "verdict",
                        !.ai_result = AnalyzeClaim(task.input, ClaimAmount(session.claim), now)]
    /\ UNCHANGED <<engineVars, estimator, session, db>>

\* if ai_result.get("verification"): claim.ai_recommendation = verification.get("status")
SetVerdict ==
    /\ task.pc = "verdict"
    /\ session' = IF ~IsNoneDict(task.ai_result.verification)
                  THEN [session EXCEPT !.claim.ai_recommendation =
                            Get(task.ai_result.verification, "status", "None")]
                  ELSE session
    /\ task' = [task EXCEPT !.pc = "map"]
    /\ UNCHANGED <<engineVars, estimator, db>>

\* forensic_fields = map_forensic_to_db(ai_result)
MapForensic ==
    /\ task.pc = "map"
    /\ task' = [task EXCEPT !.pc = "estimate",
                            !.forensic_fields = MapForensicToDb(task.ai_result)]
    /\ UNCHANGED <<engineVars, estimator, session, db>>

\* the repair cost estimation: the estimate goes to the forensic fields and to
\* the cost fields of the claim; an exception of the estimator leaves the try block
EstimateCost ==
    /\ task.pc = "estimate"
    /\ LET damaged_panels == task.ai_result.damaged_panels
           cost_estimate == EstimateRepairCost(damaged_panels, USD_TO_INR)
       IN  IF damaged_panels = <<>>
           THEN /\ task' = [task EXCEPT !.pc = "store"]
                /\ UNCHANGED session
           ELSE IF EstimateRaises(damaged_panels)
           THEN /\ task' = [task EXCEPT !.pc = "except"]
                /\ UNCHANGED session
           ELSE /\ task' = [task EXCEPT
                                !.pc = "store",
                                !.forensic_fields.repair_cost_breakdown = cost_estimate]
                /\ session' = [session EXCEPT
                                !.claim.estimated_cost_min = cost_estimate.total_inr_min,
                                !.claim.estimated_cost_max = cost_estimate.total_inr_max]
    /\ UNCHANGED <<engineVars, estimator, db>>

\* the forensic row is created or updated in the session
StoreForensic ==
    /\ task.pc = "store"
    /\ session' = [session EXCEPT !.forensic = task.forensic_fields]
    /\ task' = [task EXCEPT !.pc = "complete"]
    /\ UNCHANGED <<engineVars, estimator, db>>

\* claim.status = "completed"; db.commit()
MarkCompleted ==
    /\ task.pc = "complete"
    /\ Commit([session EXCEPT !.claim.status = "completed"], "closed", task.began)
    /\ UNCHANGED <<engineVars, estimator>>

\* except Exception: claim.status = "failed"; db.commit() -- the commit writes
\* what the session holds; when the query or the commit raises, the inner
\* except prints the error and the database keeps what it held; finally
\* db.close()
HandleError ==
    /\ task.pc = "except"
    /\ \E ok \in BOOLEAN :
        LET rows == [session EXCEPT !.claim.status = "failed"]
        IN  /\ session' = rows
            /\ db' = IF ok THEN rows ELSE db
    /\ task' = [task EXCEPT !.pc = "closed"]
    /\ UNCHANGED <<engineVars, estimator>>

NextPipeline ==
    \/ BeginProcessing
    \/ Analyze
    \/ SetVerdict
    \/ MapForensic
    \/ EstimateCost
    \/ StoreForensic
    \/ MarkCompleted
    \/ HandleError

SpecPipeline == InitPipeline /\ [][NextPipeline]_vars

(***************************************************************************)
(* The claims                                                              *)
(***************************************************************************)
Done(t) == t \in callers /\ pc[t] = "done"

HasSeverity(r, severity) ==
    \E i \in 1..Len(r.failed_checks) : r.failed_checks[i].severity = severity

RuleIds(r) == { r.failed_checks[i].rule_id : i \in 1..Len(r.failed_checks) }

SevereCount(r) ==
    Cardinality({ i \in 1..Len(r.failed_checks) :
                    r.failed_checks[i].severity \in {"CRITICAL", "HIGH"} })

\* C1: a result whose failed_checks hold a CRITICAL failure has status
\* REJECTED and requires_human_review true, whatever its severity score.
C1_CriticalDominates ==
    \A t \in Callers :
        Done(t) /\ HasSeverity(result[t], "CRITICAL") =>
            /\ result[t].status = "REJECTED"
            /\ result[t].requires_human_review

\* a call returned with one CRITICAL failure among its failed checks
C1_Witness ==
    \E t \in Callers :
        /\ Done(t)
        /\ CountSeverity(result[t].failed_checks, "CRITICAL") = 1
        /\ result[t].status = "REJECTED"

\* C2: a result with no failed check is APPROVED, auto_approved, needs no
\* human review and has confidence_level HIGH.
C2_NoFailureApproved ==
    \A t \in Callers :
        Done(t) /\ Len(result[t].failed_checks) = 0 =>
            /\ result[t].status = "APPROVED"
            /\ result[t].auto_approved
            /\ ~result[t].requires_human_review
            /\ result[t].confidence_level = "HIGH"

\* a call returned with every check passed
C2_Witness ==
    \E t \in Callers :
        /\ Done(t)
        /\ Len(result[t].failed_checks) = 0
        /\ Len(result[t].passed_checks) > 0

\* Scenario A: no fact at all, an active policy with make, model and plate
\* whose window holds the day of the call, no history, claim_amount 0
ScenarioA(t) ==
    /\ DOMAIN args[t].ai_analysis = {}
    /\ args[t].claim_amount = 0
    /\ Len(args[t].history) = 0
    /\ StrLower(StrOf(args[t].policy_data, "status")) = W_active
    /\ StrOf(args[t].policy_data, "vehicle_make") # <<>>
    /\ StrOf(args[t].policy_data, "vehicle_model") # <<>>
    /\ StrOf(args[t].policy_data, "vehicle_registration") # <<>>
    /\ args[t].policy_data["start_date"].iso
    /\ args[t].policy_data["end_date"].iso
    /\ args[t].policy_data["start_date"].day <= today15[t]
    /\ today15[t] <= args[t].policy_data["end_date"].day

\* C3 as stated: Scenario A is APPROVED and auto_approved, and failed_checks
\* is empty or holds only the LOW failure GPS_MISSING.
C3_ScenarioA_Approved ==
    \A t \in Callers :
        Done(t) /\ ScenarioA(t) =>
            /\ result[t].status = "APPROVED"
            /\ result[t].auto_approved
            /\ RuleIds(result[t]) \subseteq {"GPS_MISSING"}

\* C3 amended: Scenario A is REJECTED with requires_human_review; its
\* failed_checks are METADATA_MISSING (HIGH), GPS_MISSING (LOW),
\* VEHICLE_LOW_CONFIDENCE (MEDIUM), PLATE_NOT_DETECTED (HIGH) and
\* NARRATIVE_MISMATCH (HIGH), and severity_score is 18 * 1.5 = 27.
C3_ScenarioA_Rejected ==
    \A t \in Callers :
        Done(t) /\ ScenarioA(t) =>
            /\ result[t].status = "REJECTED"
            /\ ~result[t].auto_approved
            /\ result[t].requires_human_review
            /\ result[t].failed_checks =
                << [rule_id |-> "METADATA_MISSING", severity |-> "HIGH", phase |-> "A"],
                   [rule_id |-> "GPS_MISSING", severity |-> "LOW", phase |-> "A"],
                   [rule_id |-> "VEHICLE_LOW_CONFIDENCE", severity |-> "MEDIUM", phase |-> "B"],
                   [rule_id |-> "PLATE_NOT_DETECTED", severity |-> "HIGH", phase |-> "B"],
                   [rule_id |-> "NARRATIVE_MISMATCH", severity |-> "HIGH", phase |-> "C"] >>
            /\ result[t].severity_score = 27 * ScoreScale

\* a call of Scenario A returned
C3_Witness ==
    \E t \in Callers : Done(t) /\ ScenarioA(t) /\ result[t].status = "REJECTED"

\* C4: with forensic_indicators.is_screen_recapture true, SCREEN_RECAPTURE
\* is the only failure of phase A in failed_checks and the status is REJECTED.
C4_ScreenRecaptureShortCircuits ==
    \A t \in Callers :
        Done(t) /\ Truthy(Ai(args[t].ai_analysis, "forensic_indicators",
                             "is_screen_recapture", "False")) =>
            /\ { result[t].failed_checks[i].rule_id :
                    i \in { j \in 1..Len(result[t].failed_checks) :
                              result[t].failed_checks[j].phase = "A" } }
                 = {"SCREEN_RECAPTURE"}
            /\ result[t].status = "REJECTED"

\* the fields of a result that C5 compares
Verdict(r) ==
    [status |-> r.status, passed_checks |-> r.passed_checks,
     failed_checks |-> r.failed_checks, severity_score |-> r.severity_score]

\* what the call of caller t returns when it runs alone on a new engine
Alone(t) == VerifyFresh(args[t], today15[t], now16[t], result[t].timestamp)

\* C5: each of two calls that run concurrently on one engine returns the
\* status, passed_checks, failed_checks and severity_score it returns when
\* it runs alone.
C5_ConcurrentCallsIsolated ==
    \A t \in Callers : Done(t) => Verdict(result[t]) = Verdict(Alone(t))

\* C6: a call made after other calls on the same engine starts from an
\* empty pass list, an empty fail list and raw score 0, and returns what a
\* newly constructed engine returns for the same arguments.
C6_SequentialCallsFresh ==
    \A t \in Callers :
        /\ t \in callers /\ pc[t] = "c1" => engine = FreshAcc
        /\ Done(t) => result[t] = Alone(t)

\* the second call on an engine returned, and it recorded failures
C6_Witness ==
    \E t \in Callers :
        /\ Done(t)
        /\ served = MaxCalls
        /\ Len(result[t].failed_checks) > 0
        /\ Len(result[t].passed_checks) > 0

\* a result without its timestamp
Timeless(r) == [f \in DOMAIN r \ {"timestamp"} |-> r[f]]

\* C7: two calls with identical claim_amount, facts, policy and history
\* return results that are equal in every field except timestamp.
C7_SameArgumentsSameVerdict ==
    \A t \in Callers :
        Done(t) /\ DOMAIN prev[t] # {} => Timeless(result[t]) = Timeless(prev[t])

\* the accumulators with the i-th pass replaced by a failure of `severity`
PassTurnedFailure(acc, i, severity) ==
    Fail([acc EXCEPT !.passed = SubSeq(@, 1, i - 1) \o SubSeq(@, i + 1, Len(@))],
         acc.passed[i], severity, "A")

\* C8: a run that differs from another only in that one recorded pass is a
\* failure has a final score at least as high, and is not APPROVED when
\* the other is REJECTED.
C8_MoreFailuresNeverHelp ==
    \A t \in Callers :
        Done(t) =>
            LET first == MakeFinalDecision(engine, now)
            IN  /\ first = result[t] \/ first.timestamp # result[t].timestamp
                /\ \A i \in 1..Len(engine.passed) :
                        \A severity \in {"LOW", "MEDIUM", "HIGH", "CRITICAL"} :
                            LET second == MakeFinalDecision(
                                              PassTurnedFailure(engine, i, severity), now)
                            IN  /\ second.severity_score >= result[t].severity_score
                                /\ result[t].status = "REJECTED" =>
                                        second.status # "APPROVED"

\* a REJECTED run with two severe failures returned: one more makes three
C8_Witness ==
    \E t \in Callers :
        /\ Done(t)
        /\ result[t].status = "REJECTED"
        /\ SevereCount(result[t]) = COMPOUND_FAILURE_THRESHOLD - 1
        /\ Len(result[t].passed_checks) > 0

\* C9: severity_score is raw_score * 1.5 when at least 3 failed checks are
\* CRITICAL or HIGH, and raw_score otherwise.
C9_CompoundingTrigger ==
    \A t \in Callers :
        Done(t) =>
            IF SevereCount(result[t]) >= COMPOUND_FAILURE_THRESHOLD
            THEN result[t].severity_score * ScoreScale = engine.raw * COMPOUND_MULTIPLIER_NUM
            ELSE result[t].severity_score = engine.raw

\* a run with exactly 3 severe failures returned, its score compounded
C9_Witness ==
    \E t \in Callers :
        /\ Done(t)
        /\ SevereCount(result[t]) = COMPOUND_FAILURE_THRESHOLD
        /\ result[t].severity_score > engine.raw

\* a run with exactly 2 severe failures returned, its score not compounded
C9_WitnessBelow ==
    \E t \in Callers :
        /\ Done(t)
        /\ SevereCount(result[t]) = COMPOUND_FAILURE_THRESHOLD - 1
        /\ result[t].severity_score = engine.raw

\* C10: 0 <= confidence_score <= 100, and confidence_score is
\* max(0, passed / (passed + failed) - min(final_score / 50, 1)) * 100.
C10_ConfidenceBounds ==
    \A t \in Callers :
        Done(t) =>
            LET c == result[t].confidence_score
                passed == Len(result[t].passed_checks)
                total  == Len(result[t].passed_checks) + Len(result[t].failed_checks)
                full   == CONFIDENCE_PENALTY_DIVISOR * ScoreScale
                capped == IF result[t].severity_score < full
                          THEN result[t].severity_score ELSE full
            IN  /\ c.den > 0
                /\ 0 <= c.num
                /\ c.num <= PERCENT * c.den
                /\ total > 0
                /\ IF passed * full > capped * total
                   THEN c.num * total * full
                            = (passed * full - capped * total) * PERCENT * c.den
                   ELSE c.num = 0

\* a run with no passed check and a final score above 50 returned
C10_Witness ==
    \E t \in Callers :
        /\ Done(t)
        /\ Len(result[t].passed_checks) = 0
        /\ result[t].severity_score > CONFIDENCE_PENALTY_DIVISOR * ScoreScale
        /\ result[t].confidence_score.num = 0


\* the rule ids that check n records, passes and failures
OutcomeIds(n) ==
    CASE n = 1  -> {"SCREEN_RECAPTURE", "IMAGE_BLURRY", "IMAGE_LOW_QUALITY", "IMAGE_QUALITY_OK"}
      [] n = 2  -> {"METADATA_MISSING", "METADATA_TIMESTAMP", "GPS_LOCATION_MISMATCH",
                    "GPS_LOCATION", "GPS_EXISTS", "GPS_MISSING"}
      [] n = 3  -> {"STOCK_PHOTO_DETECTED", "STOCK_PHOTO_SUSPICIOUS", "REVERSE_IMAGE_SEARCH"}
      [] n = 4  -> {"DIGITAL_MANIPULATION", "DIGITAL_FORGERY"}
      [] n = 5  -> {"VEHICLE_LOW_CONFIDENCE", "VEHICLE_MISMATCH", "VEHICLE_MATCH",
                    "VEHICLE_COLOR_MISMATCH"}
      [] n = 6  -> {"PLATE_LOW_CONFIDENCE", "PLATE_NOT_DETECTED", "PLATE_MISMATCH",
                    "LICENSE_PLATE"}
      [] n = 7  -> {"CHASE_NUMBER_LOW_CONFIDENCE", "CHASE_NUMBER_NOT_PROVIDED",
                    "CHASE_NUMBER_MISMATCH", "CHASE_NUMBER_MATCH"}
      [] n = 8  -> {"PRE_EXISTING_DAMAGE"}
      [] n = 9  -> {"YOLO_CORROBORATION_SKIPPED", "YOLO_AI_DAMAGE_DISAGREEMENT",
                    "YOLO_AI_SEVERITY_GAP", "YOLO_AI_CORROBORATED"}
      [] n = 10 -> {"TOTALED_NO_PHYSICAL_MARKERS", "TOTALED_MARKERS_PRESENT",
                    "TOTAL_VEHICLE_CHECK_NA"}
      [] n = 11 -> {"NARRATIVE_MISMATCH", "NARRATIVE_CONSISTENCY"}
      [] n = 12 -> {"MULTI_IMAGE_NOT_APPLICABLE", "MULTI_IMAGE_INCONSISTENCY",
                    "MULTI_IMAGE_CONSISTENT"}
      [] n = 13 -> {"AMOUNT_THRESHOLD", "AMOUNT_EXCEEDS_THRESHOLD"}
      [] n = 14 -> {"CLAIM_NO_DAMAGE_DETECTED", "CLAIM_INFLATED", "CLAIM_SUSPICIOUSLY_LOW",
                    "DAMAGE_COST_SANITY", "DAMAGE_COST_SANITY_NO_ESTIMATE"}
      [] n = 15 -> {"POLICY_INACTIVE", "POLICY_ACTIVE", "POLICY_EXPIRED_OR_NOT_STARTED",
                    "POLICY_DATE_WINDOW", "CLAIM_EXCEEDS_COVERAGE", "COVERAGE_ADEQUATE"}
      [] n = 16 -> {"DUPLICATE_OPEN_CLAIM", "DUPLICATE_PLATE_RECENT",
                    "DUPLICATE_CLAIM_NOT_APPLICABLE", "NO_DUPLICATE_CLAIMS"}

\* the number of checks of verify_claim
CHECK_COUNT == 16

\* the check that records each rule id
CheckOfRule ==
    [rule_id \in UNION { OutcomeIds(n) : n \in 1..CHECK_COUNT } |->
        CHOOSE n \in 1..CHECK_COUNT : rule_id \in OutcomeIds(n)]

\* the check that records rule_id
CheckOf(rule_id) == CheckOfRule[rule_id]

\* the phase of check n
PhaseOf(n) ==
    IF n <= 4 THEN "A" ELSE IF n <= 10 THEN "B" ELSE IF n <= 12 THEN "C"
    ELSE IF n <= 14 THEN "D" ELSE "E"

PhaseRank(phase) ==
    CASE phase = "A" -> 1 [] phase = "B" -> 2 [] phase = "C" -> 3
      [] phase = "D" -> 4 [] phase = "E" -> 5

\* the outcomes check n has recorded in result r
OutcomesOf(r, n) ==
    Cardinality({ i \in 1..Len(r.passed_checks) : CheckOf(r.passed_checks[i]) = n })
    + Cardinality({ i \in 1..Len(r.failed_checks) :
                      CheckOf(r.failed_checks[i].rule_id) = n })

\* C11: the checks run in the order 1 to 16 whatever the earlier checks
\* recorded: in every result the failures are in the order of their checks,
\* their phases in the order A, B, C, D, E and each the phase of its check,
\* the passes are in the order of their checks, and each of the checks 5 to
\* 16 has recorded at least one pass or failure.
C11_AllChecksRunInOrder ==
    \A t \in Callers :
        Done(t) =>
            LET f == result[t].failed_checks
                p == result[t].passed_checks
            IN  /\ \A i \in 1..(Len(f) - 1) :
                        /\ PhaseRank(f[i].phase) <= PhaseRank(f[i + 1].phase)
                        /\ CheckOf(f[i].rule_id) <= CheckOf(f[i + 1].rule_id)
                /\ \A i \in 1..Len(f) : f[i].phase = PhaseOf(CheckOf(f[i].rule_id))
                /\ \A i \in 1..(Len(p) - 1) : CheckOf(p[i]) <= CheckOf(p[i + 1])
                /\ \A n \in 5..CHECK_COUNT : OutcomesOf(result[t], n) >= 1

\* a run whose phase A recorded a CRITICAL failure returned with failures of
\* every later phase
C11_Witness ==
    \E t \in Callers :
        /\ Done(t)
        /\ \E i \in 1..Len(result[t].failed_checks) :
                /\ result[t].failed_checks[i].phase = "A"
                /\ result[t].failed_checks[i].severity = "CRITICAL"
        /\ \A ph \in {"B", "C", "D", "E"} :
                \E i \in 1..Len(result[t].failed_checks) :
                    result[t].failed_checks[i].phase = ph


\* the most outcomes check n records in one run
MaxOutcomes(n) ==
    CASE n \in {5, 15}       -> 3
      [] n \in {2, 6, 7, 16} -> 2
      [] OTHER               -> 1

\* the fewest outcomes check n records in one run
MinOutcomes(n) ==
    CASE n = 2  -> 2
      [] n = 15 -> 3
      [] OTHER  -> 1

\* the outcomes recorded in result r
Outcomes(r) == Len(r.passed_checks) + Len(r.failed_checks)

RECURSIVE SumOutcomes(_, _)
SumOutcomes(r, n) == IF n = 0 THEN 0 ELSE OutcomesOf(r, n) + SumOutcomes(r, n - 1)

\* C12 as stated: len(passed_checks) + len(failed_checks) is the number of
\* checks that executed, 16: each check contributes exactly one outcome.
C12_OneOutcomePerCheck ==
    \A t \in Callers : Done(t) => Outcomes(result[t]) = CHECK_COUNT

\* C12 amended: every outcome is the outcome of one of the 16 checks and
\* each check contributes at least one: check 2 two, check 15 three, check 5
\* one to three, the checks 6, 7 and 16 one or two, every other check one;
\* len(passed_checks) + len(failed_checks) is at least 19.
C12_OutcomesPerCheck ==
    \A t \in Callers :
        Done(t) =>
            /\ \A n \in 1..CHECK_COUNT :
                    LET recorded == OutcomesOf(result[t], n)
                    IN  MinOutcomes(n) <= recorded /\ recorded <= MaxOutcomes(n)
            /\ Outcomes(result[t]) = SumOutcomes(result[t], CHECK_COUNT)
            /\ Outcomes(result[t]) >= CHECK_COUNT + 3

\* a run returned in which check 2 recorded two outcomes, check 7 two and
\* check 15 three
C12_Witness ==
    \E t \in Callers :
        /\ Done(t)
        /\ OutcomesOf(result[t], 2) = 2
        /\ OutcomesOf(result[t], 7) = 2
        /\ OutcomesOf(result[t], 15) = 3
        /\ Outcomes(result[t]) > CHECK_COUNT + 3


\* C13: a run with at least one failure and no CRITICAL failure is decided
\* by final_score alone: REJECTED (review) iff final_score >= 10, FLAGGED
\* (review, confidence MEDIUM) iff 2 <= final_score < 10, APPROVED
\* (auto_approved, requires_monitoring) iff final_score < 2.
C13_ScoreDecides ==
    \A t \in Callers :
        Done(t) /\ Len(result[t].failed_checks) > 0
                /\ ~HasSeverity(result[t], "CRITICAL") =>
            LET r == result[t]
                reject == AUTO_REJECT_SCORE_THRESHOLD * ScoreScale
                flag   == FLAG_FOR_REVIEW_SCORE_THRESHOLD * ScoreScale
            IN  /\ r.status = "REJECTED" <=> r.severity_score >= reject
                /\ r.status = "FLAGGED"
                        <=> flag <= r.severity_score /\ r.severity_score < reject
                /\ r.status = "APPROVED" <=> r.severity_score < flag
                /\ r.status = "REJECTED" => r.requires_human_review
                /\ r.status = "FLAGGED"
                        => r.requires_human_review /\ r.confidence_level = "MEDIUM"
                /\ r.status = "APPROVED" => r.auto_approved /\ r.requires_monitoring

\* a run without CRITICAL failure returned FLAGGED at final_score 2
C13_Witness ==
    \E t \in Callers :
        /\ Done(t)
        /\ ~HasSeverity(result[t], "CRITICAL")
        /\ result[t].severity_score = FLAG_FOR_REVIEW_SCORE_THRESHOLD * ScoreScale
        /\ result[t].status = "FLAGGED"

\* a run without CRITICAL failure returned REJECTED at final_score 10
C13_WitnessReject ==
    \E t \in Callers :
        /\ Done(t)
        /\ ~HasSeverity(result[t], "CRITICAL")
        /\ result[t].severity_score = AUTO_REJECT_SCORE_THRESHOLD * ScoreScale
        /\ result[t].status = "REJECTED"

\* a run with one LOW failure returned APPROVED with monitoring
C13_WitnessMonitor ==
    \E t \in Callers :
        /\ Done(t)
        /\ Len(result[t].failed_checks) = 1
        /\ result[t].severity_score < FLAG_FOR_REVIEW_SCORE_THRESHOLD * ScoreScale
        /\ result[t].status = "APPROVED"
        /\ result[t].requires_monitoring

\* every failure of result r is LOW, and there is at least one
OnlyLowFailures(r) ==
    /\ Len(r.failed_checks) > 0
    /\ \A i \in 1..Len(r.failed_checks) : r.failed_checks[i].severity = "LOW"

\* C14: a run whose failures are all of severity LOW is APPROVED with
\* auto_approved, requires_monitoring and confidence_level MEDIUM.
C14_OnlyLowApproved ==
    \A t \in Callers :
        Done(t) /\ OnlyLowFailures(result[t]) =>
            /\ result[t].status = "APPROVED"
            /\ result[t].auto_approved
            /\ result[t].requires_monitoring
            /\ result[t].confidence_level = "MEDIUM"

\* C15: a call whose policy record lacks the status field never returns a
\* result: every call that returned was given a policy record holding status.
C15_MissingStatusFails ==
    \A t \in Callers :
        Done(t) => "status" \in DOMAIN args[t].policy_data

\* the fields of a VerificationResult
ResultFields ==
    { "status", "decision_reason", "confidence_level", "confidence_score",
      "auto_approved", "requires_human_review", "requires_monitoring",
      "severity_score", "passed_checks", "failed_checks", "timestamp" }

\* a result with every field set and a status of the decision matrix
Complete(r) ==
    /\ DOMAIN r = ResultFields
    /\ r.status \in { "APPROVED", "FLAGGED", "REJECTED" }
    /\ r.confidence_level \in { "HIGH", "MEDIUM", "LOW" }
    /\ r.auto_approved \in BOOLEAN
    /\ r.requires_human_review \in BOOLEAN
    /\ r.requires_monitoring \in BOOLEAN
    /\ Len(r.passed_checks) + Len(r.failed_checks) >= CHECK_COUNT

\* C16: with a policy record, a call raises no error whatever sections and keys
\* of the facts are absent or null, and the result it returns is complete.
C16_GapsNeverRaise ==
    \A t \in Callers :
        /\ t \in callers /\ pc[t] = "raised" => IsNoneDict(args[t].policy_data)
        /\ Done(t) => Complete(result[t])

\* a call on facts whose every key is null, with a prior claim whose every key
\* is null, has returned
C16_Witness ==
    \E t \in Callers :
        /\ Done(t)
        /\ \A d \in FactSections : d \in DOMAIN args[t].ai_analysis
                                    /\ args[t].ai_analysis[d] = AllNull(d)
        /\ args[t].history = <<NullPrior>>
        /\ Complete(result[t])

\* a call on facts whose every section is null has returned
C16_WitnessNoSections ==
    \E t \in Callers :
        /\ Done(t)
        /\ \A d \in FactSections : d \in DOMAIN args[t].ai_analysis
                                    /\ IsNoneDict(args[t].ai_analysis[d])
        /\ Complete(result[t])

\* estimate_repair_cost returned
Returned == estimator.pc = "returned"

\* the canonical keys the names of a list resolve to
ResolvedKeys(panels) ==
    { ResolvePanelKey(panels[i]) : i \in 1..Len(panels) } \ { NoneStr }

\* C17: the breakdown of an estimate holds one entry for each canonical key the
\* panel names resolve to, priced from the table; the names that resolve to no
\* key are the unrecognized panels; the USD totals are the sums of the entries;
\* at the fixed rate the INR values are the USD values times the rate and the
\* INR totals are the sums of the entries; the empty list gives an empty
\* breakdown and zero totals.
C17_EstimateIsSumOfDistinctParts ==
    Returned =>
        LET e == estimator.estimate
            panels == estimator.damaged_panels
            fixed == estimator.usd_to_inr = USD_TO_INR
        IN  /\ { e.breakdown[i].panel_key : i \in 1..Len(e.breakdown) } = ResolvedKeys(panels)
            /\ Len(e.breakdown) = Cardinality(ResolvedKeys(panels))
            /\ \A i \in 1..Len(e.breakdown) :
                    /\ e.breakdown[i].usd_min = TableEntry(e.breakdown[i].panel_key).min
                    /\ e.breakdown[i].usd_max = TableEntry(e.breakdown[i].panel_key).max
                    /\ fixed => /\ e.breakdown[i].inr_min = 84 * e.breakdown[i].usd_min
                                /\ e.breakdown[i].inr_max = 84 * e.breakdown[i].usd_max
            /\ e.unrecognized_panels
                    = SelectSeq(panels, LAMBDA name : ResolvePanelKey(name) = NoneStr)
            /\ e.total_usd_min = SumOf(e.breakdown, "usd_min")
            /\ e.total_usd_max = SumOf(e.breakdown, "usd_max")
            /\ fixed => /\ e.total_inr_min = SumOf(e.breakdown, "inr_min")
                        /\ e.total_inr_max = SumOf(e.breakdown, "inr_max")
                        /\ e.total_inr_min = 84 * e.total_usd_min
                        /\ e.total_inr_max = 84 * e.total_usd_max
            /\ panels = <<>> =>
                    /\ e.breakdown = <<>>
                    /\ e.total_usd_min = 0 /\ e.total_usd_max = 0
                    /\ e.total_inr_min = 0 /\ e.total_inr_max = 0

\* an estimate for a list that names the hood by an alias and by its key, and a
\* part the table does not know: one entry, one unrecognized panel
C17_Witness ==
    /\ Returned
    /\ estimator.usd_to_inr = USD_TO_INR
    /\ estimator.damaged_panels = <<P_bonnet, P_hood, P_spoiler>>
    /\ Len(estimator.estimate.breakdown) = 1
    /\ estimator.estimate.unrecognized_panels = <<P_spoiler>>
    /\ estimator.estimate.total_inr_max = 100800

\* an estimate for the empty list
C17_WitnessEmpty ==
    /\ Returned
    /\ estimator.damaged_panels = <<>>
    /\ estimator.estimate.total_inr_max = 0

\* verify_claim raised in the run of the task
EngineRaised ==
    /\ task.pc \in {"verdict", "map", "estimate", "store", "complete", "except", "closed"}
    /\ "error" \in DOMAIN Get(task.ai_result, "verification", NoneDict)

\* a status that approves nothing
SafeStatus(status) == status \in {"FLAGGED", "REJECTED"}

\* C18: when verify_claim raised in the run of a task, the recommendation the
\* task leaves on the claim and on the forensic record is a status that does
\* not approve, with the engine error as its reason.
C18_EngineErrorIsFlagged ==
    task.pc = "closed" /\ EngineRaised =>
        /\ SafeStatus(db.claim.ai_recommendation)
        /\ ~IsNoneDict(db.forensic) =>
                /\ SafeStatus(db.forensic.ai_recommendation)
                /\ db.forensic.ai_reasoning = EngineErrorReason

\* C19: in every committed state of the database the verdict of the run and
\* its forensic record are stored together: no verdict without the record,
\* no record with another verdict than the claim's.
C19_VerdictAndForensicAtomic ==
    /\ db.claim.ai_recommendation # "None" => ~IsNoneDict(db.forensic)
    /\ ~IsNoneDict(db.forensic) =>
            db.forensic.ai_recommendation = db.claim.ai_recommendation

\* the forensic record of a run whose verification the engine returned
EngineVerdictStored ==
    /\ task.pc = "closed"
    /\ ~IsNoneDict(db.forensic)
    /\ "status" \in DOMAIN Get(task.ai_result, "verification", NoneDict)

\* C20: the forensic record stored for a result of the engine has
\* fraud_probability HIGH, MEDIUM, VERY_LOW for REJECTED, FLAGGED, APPROVED and
\* human_review_priority CRITICAL for REJECTED, else HIGH when the result
\* requires human review, else LOW; the priority is never MEDIUM.
C20_ForensicFieldsFollowVerdict ==
    EngineVerdictStored =>
        LET verification == task.ai_result.verification
            status == verification.status
        IN  /\ status \in {"REJECTED", "FLAGGED", "APPROVED"}
            /\ db.forensic.ai_recommendation = status
            /\ status = "REJECTED" => db.forensic.fraud_probability = "HIGH"
            /\ status = "FLAGGED"  => db.forensic.fraud_probability = "MEDIUM"
            /\ status = "APPROVED" => db.forensic.fraud_probability = "VERY_LOW"
            /\ db.forensic.human_review_priority =
                    IF status = "REJECTED" THEN "CRITICAL"
                    ELSE IF verification.requires_human_review THEN "HIGH"
                    ELSE "LOW"
            /\ db.forensic.human_review_priority # "MEDIUM"

\* a stored record for an APPROVED result
C20_Witness ==
    /\ EngineVerdictStored
    /\ task.ai_result.verification.status = "APPROVED"
    /\ db.forensic.fraud_probability = "VERY_LOW"
    /\ db.forensic.human_review_priority = "LOW"

\* a stored record for a FLAGGED result
C20_WitnessFlagged ==
    /\ EngineVerdictStored
    /\ task.ai_result.verification.status = "FLAGGED"
    /\ db.forensic.human_review_priority = "HIGH"

\* a stored record for a REJECTED result
C20_WitnessRejected ==
    /\ EngineVerdictStored
    /\ task.ai_result.verification.status = "REJECTED"
    /\ db.forensic.human_review_priority = "CRITICAL"

\* a result records the failure rule_id with this severity
Failed(r, rule_id, severity) ==
    \E i \in 1..Len(r.failed_checks) :
        r.failed_checks[i].rule_id = rule_id /\ r.failed_checks[i].severity = severity

\* a result records the pass rule_id
Passed(r, rule_id) == \E i \in 1..Len(r.passed_checks) : r.passed_checks[i] = rule_id

\* the damage_assessment section a call was given
DamageOf(a) == Section(a.ai_analysis, "damage_assessment")

\* the AI severity a call was given, "none" when absent
AiSeverityOf(a) == StrLower(StrOr(Get(DamageOf(a), "ai_severity", NoneStr), W_none))

\* C21: check 14 records exactly one outcome, chosen by the cascade: severity
\* "none" with claim_amount > 0 gives CRITICAL CLAIM_NO_DAMAGE_DETECTED and
\* the status REJECTED; else a present AI max estimate with
\* claim_amount / ai_max > 2.0 gives HIGH CLAIM_INFLATED; else a present AI
\* min estimate with claim_amount < ai_min / 2 gives LOW
\* CLAIM_SUSPICIOUSLY_LOW, whether or not a max estimate is present; else a
\* pass.
C21_CostSanityCascade ==
    \A t \in Callers :
        Done(t) =>
            LET r == result[t]
                claim_amount == args[t].claim_amount
                ai_min == Get(DamageOf(args[t]), "ai_cost_min", NoneNum)
                ai_max == Get(DamageOf(args[t]), "ai_cost_max", NoneNum)
            IN  /\ OutcomesOf(r, 14) = 1
                /\ IF AiSeverityOf(args[t]) = W_none /\ claim_amount > 0
                   THEN /\ Failed(r, "CLAIM_NO_DAMAGE_DETECTED", "CRITICAL")
                        /\ r.status = "REJECTED"
                   ELSE IF ai_max # NoneNum /\ ai_max > 0 /\ claim_amount > 2 * ai_max
                   THEN Failed(r, "CLAIM_INFLATED", "HIGH")
                   ELSE IF ai_min # NoneNum /\ 2 * claim_amount < ai_min
                   THEN Failed(r, "CLAIM_SUSPICIOUSLY_LOW", "LOW")
                   ELSE Passed(r, "DAMAGE_COST_SANITY")
                        \/ Passed(r, "DAMAGE_COST_SANITY_NO_ESTIMATE")

\* the policy status a call was given, lower-cased, "" when absent
PolicyStatusOf(a) == StrLower(StrOf(a.policy_data, "status"))

\* the dates of a policy all parse and today lies before the start or after
\* the end
OutsideWindow(policy, today) ==
    LET dates == { k \in {"start_date", "end_date"} : k \in DOMAIN policy }
    IN  /\ \A k \in dates : policy[k].iso
        /\ \/ "start_date" \in dates /\ today < policy["start_date"].day
           \/ "end_date" \in dates /\ today > policy["end_date"].day

\* the coverage of a policy, 0 when it holds none
CoverageOf(policy) ==
    IF Get(policy, "plan_coverage", NoneNum) \notin {NoneNum, 0}
    THEN policy["plan_coverage"]
    ELSE IF Get(policy, "coverage_amount", NoneNum) # NoneNum
    THEN policy["coverage_amount"]
    ELSE 0

\* C22: check 15 records one outcome for each of its three sub-checks, each
\* decided by its own input alone: POLICY_INACTIVE (CRITICAL) exactly when
\* the status is not "active", else POLICY_ACTIVE;
\* POLICY_EXPIRED_OR_NOT_STARTED (CRITICAL) exactly when today lies outside
\* the window and no date fails to parse, else POLICY_DATE_WINDOW;
\* CLAIM_EXCEEDS_COVERAGE (MEDIUM) exactly when the policy holds a coverage
\* and claim_amount exceeds it, else COVERAGE_ADEQUATE; and a status other
\* than "active" gives the status REJECTED.
C22_PolicySubChecksIndependent ==
    \A t \in Callers :
        Done(t) =>
            LET r == result[t]
                policy == args[t].policy_data
                inactive == PolicyStatusOf(args[t]) # W_active
                outside == OutsideWindow(policy, today15[t])
                exceeds == CoverageOf(policy) # 0
                           /\ args[t].claim_amount > CoverageOf(policy)
            IN  /\ OutcomesOf(r, 15) = 3
                /\ Failed(r, "POLICY_INACTIVE", "CRITICAL") <=> inactive
                /\ Passed(r, "POLICY_ACTIVE") <=> ~inactive
                /\ Failed(r, "POLICY_EXPIRED_OR_NOT_STARTED", "CRITICAL") <=> outside
                /\ Passed(r, "POLICY_DATE_WINDOW") <=> ~outside
                /\ Failed(r, "CLAIM_EXCEEDS_COVERAGE", "MEDIUM") <=> exceeds
                /\ Passed(r, "COVERAGE_ADEQUATE") <=> ~exceeds
                /\ inactive => r.status = "REJECTED"

\* an expired policy inside its window that covers the amount: one CRITICAL
\* failure and two passes of check 15
C22_Witness ==
    \E t \in Callers :
        /\ Done(t)
        /\ PolicyStatusOf(args[t]) = W_expired
        /\ Failed(result[t], "POLICY_INACTIVE", "CRITICAL")
        /\ Passed(result[t], "POLICY_DATE_WINDOW")
        /\ Passed(result[t], "COVERAGE_ADEQUATE")
        /\ result[t].status = "REJECTED"

\* an active policy not yet started whose end date does not parse
C22_WitnessUnparsed ==
    \E t \in Callers :
        /\ Done(t)
        /\ "end_date" \in DOMAIN args[t].policy_data
        /\ ~args[t].policy_data["end_date"].iso
        /\ Passed(result[t], "POLICY_DATE_WINDOW")
        /\ Passed(result[t], "POLICY_ACTIVE")

\* an expired policy past its end date that does not cover the amount
C22_WitnessAllFail ==
    \E t \in Callers :
        /\ Done(t)
        /\ Failed(result[t], "POLICY_INACTIVE", "CRITICAL")
        /\ Failed(result[t], "POLICY_EXPIRED_OR_NOT_STARTED", "CRITICAL")
        /\ Failed(result[t], "CLAIM_EXCEEDS_COVERAGE", "MEDIUM")

\* the OCR plate text and the policy plate of a call, normalised
OcrPlateOf(a) == NormalizePlate(StrOf(Section(a.ai_analysis, "ocr_data"), "plate_text"))
PolicyPlateOf(a) == NormalizePlate(StrOf(a.policy_data, "vehicle_registration"))

\* C23: check 6 compares the normalised OCR plate text with the normalised
\* policy plate: equal texts record the pass LICENSE_PLATE and no
\* PLATE_MISMATCH; a present OCR text that differs from the policy plate
\* records CRITICAL PLATE_MISMATCH; an OCR confidence below 0.80 adds MEDIUM
\* PLATE_LOW_CONFIDENCE and the comparison is still made; without OCR text
\* the only outcome is PLATE_NOT_DETECTED, HIGH, or MEDIUM when the plate is
\* reported obscured.
C23_PlateComparison ==
    \A t \in Callers :
        Done(t) =>
            LET r == result[t]
                ai == args[t].ai_analysis
                ocr_conf == NumOf(Section(ai, "ocr_data"), "confidence")
                obscured == Truthy(Ai(ai, "vehicle_identification", "license_plate_obscured", "False"))
            IN  IF OcrPlateOf(args[t]) = <<>>
                THEN /\ OutcomesOf(r, 6) = 1
                     /\ Failed(r, "PLATE_NOT_DETECTED", IF obscured THEN "MEDIUM" ELSE "HIGH")
                ELSE /\ "PLATE_NOT_DETECTED" \notin RuleIds(r)
                     /\ Failed(r, "PLATE_LOW_CONFIDENCE", "MEDIUM")
                            <=> ocr_conf < MIN_OCR_PLATE_CONFIDENCE
                     /\ IF OcrPlateOf(args[t]) = PolicyPlateOf(args[t])
                        THEN /\ Passed(r, "LICENSE_PLATE")
                             /\ "PLATE_MISMATCH" \notin RuleIds(r)
                        ELSE /\ Failed(r, "PLATE_MISMATCH", "CRITICAL")
                             /\ ~Passed(r, "LICENSE_PLATE")

\* the sum of the severity weights of a list of failures, in halves
RECURSIVE WeightSum(_)
WeightSum(failed) ==
    IF failed = <<>> THEN 0
    ELSE ScoreScale * SEVERITY_WEIGHTS(Head(failed).severity) + WeightSum(Tail(failed))

\* the detection flags and severity ranks check 9 reads from the facts
YoloDetectedOf(a) == Ai(a.ai_analysis, "yolo_results", "yolo_damage_detected", "None")
AiDetectedOf(a) == Ai(a.ai_analysis, "damage_assessment", "ai_damage_detected", "None")
YoloRankOf(a) == SeverityRank(StrLower(StrOr(Ai(a.ai_analysis, "yolo_results", "yolo_severity", NoneStr), W_none)))
AiRankOf(a) == SeverityRank(StrLower(StrOr(Ai(a.ai_analysis, "damage_assessment", "ai_severity", NoneStr), W_none)))

\* both pipelines ran, agree on damage_detected and their ranks differ by 2
\* or more
SeverityGap(a) ==
    /\ YoloDetectedOf(a) # "None"
    /\ AiDetectedOf(a) # "None"
    /\ YoloDetectedOf(a) = AiDetectedOf(a)
    /\ Abs(YoloRankOf(a) - AiRankOf(a)) >= 2

\* C24: when both pipelines ran, agree on damage_detected and their severity
\* ranks differ by 2 or more, check 9 records the one failure
\* YOLO_AI_SEVERITY_GAP, MEDIUM; and in every run the raw score is the sum of
\* the severity weights of failed_checks, plus the penalty 3 exactly when
\* YOLO_AI_SEVERITY_GAP is among them (so the gap costs 2 + 3 = 5).
C24_SeverityGapPenalty ==
    \A t \in Callers :
        Done(t) =>
            LET r == result[t]
                gap == "YOLO_AI_SEVERITY_GAP" \in RuleIds(r)
            IN  /\ SeverityGap(args[t]) =>
                    /\ OutcomesOf(r, 9) = 1
                    /\ Failed(r, "YOLO_AI_SEVERITY_GAP", "MEDIUM")
                /\ engine.raw = WeightSum(r.failed_checks)
                        + (IF gap THEN ScoreScale * YOLO_AI_SEVERITY_MISMATCH_PENALTY ELSE 0)
                /\ gap => engine.raw >= ScoreScale * (WEIGHT_MEDIUM + YOLO_AI_SEVERITY_MISMATCH_PENALTY)

\* a run with a severity gap and no other failure: raw score 5
C24_Witness ==
    \E t \in Callers :
        /\ Done(t)
        /\ SeverityGap(args[t])
        /\ RuleIds(result[t]) = {"YOLO_AI_SEVERITY_GAP"}
        /\ engine.raw = ScoreScale * 5

\* the task has analysed the claim and the engine returned a result
EngineReturned ==
    /\ task.pc \in {"verdict", "map", "estimate", "store", "complete", "except", "closed"}
    /\ "status" \in DOMAIN Get(task.ai_result, "verification", NoneDict)

\* the YOLO stage of the task delivered no detection result
YoloDidNotRun == task.ai_result.yolo_damage.success # "True"

\* C25: when the YOLO stage of a task did not run (detector unavailable, no
\* images, or failing on every image), check 9 of the verification run on the
\* bundle prepare_verification_data assembles records the pass
\* YOLO_CORROBORATION_SKIPPED and neither YOLO_AI_DAMAGE_DISAGREEMENT nor
\* YOLO_AI_SEVERITY_GAP.
C25_SkippedWhenYoloDidNotRun ==
    EngineReturned /\ YoloDidNotRun =>
        LET verification == task.ai_result.verification
        IN  /\ \E i \in 1..Len(verification.passed_checks) :
                    verification.passed_checks[i] = "YOLO_CORROBORATION_SKIPPED"
            /\ \A i \in 1..Len(verification.failed_checks) :
                    verification.failed_checks[i].rule_id
                        \notin {"YOLO_AI_DAMAGE_DISAGREEMENT", "YOLO_AI_SEVERITY_GAP"}

\* C25 for the engine alone: a call whose facts hold no yolo_damage_detected
\* or no ai_damage_detected records YOLO_CORROBORATION_SKIPPED and neither
\* failure of check 9.
C25_SkippedWhenFlagMissing ==
    \A t \in Callers :
        Done(t) /\ (YoloDetectedOf(args[t]) = "None" \/ AiDetectedOf(args[t]) = "None") =>
            /\ Passed(result[t], "YOLO_CORROBORATION_SKIPPED")
            /\ RuleIds(result[t]) \cap {"YOLO_AI_DAMAGE_DISAGREEMENT", "YOLO_AI_SEVERITY_GAP"} = {}

\* the plate of a claim: the OCR plate text, else the policy plate, normalised
ThisPlateOf(a) == IF OcrPlateOf(a) # <<>> THEN OcrPlateOf(a) ELSE PolicyPlateOf(a)

\* a prior claim is open
OpenPrior(prior) == StrLower(StrOf(prior, "status")) \in {W_pending, W_processing}

\* a prior claim has the plate of the claim, is at most 30 days old at the
\* time check 16 read the clock and was not rejected
RecentSamePlate(prior, a, utcnow) ==
    /\ ThisPlateOf(a) # <<>>
    /\ NormalizePlate(StrOf(prior, "vehicle_registration")) = ThisPlateOf(a)
    /\ "created_at" \in DOMAIN prior
    /\ prior["created_at"].iso
    /\ utcnow - prior["created_at"].day <= DUPLICATE_CLAIM_WINDOW_DAYS
    /\ StrLower(StrOf(prior, "status")) # W_rejected

\* C26: with a non-empty history check 16 records HIGH DUPLICATE_OPEN_CLAIM
\* exactly when some prior claim is pending or processing, and HIGH
\* DUPLICATE_PLATE_RECENT exactly when some prior claim has the plate of the
\* claim, an age of at most 30 days and a status other than rejected; each is
\* decided without the other, and NO_DUPLICATE_CLAIMS is recorded exactly
\* when neither fires.  With no history the single outcome is the pass
\* DUPLICATE_CLAIM_NOT_APPLICABLE.
C26_DuplicateGuard ==
    \A t \in Callers :
        Done(t) =>
            LET r == result[t]
                history == args[t].history
                open == \E i \in 1..Len(history) : OpenPrior(history[i])
                recent == \E i \in 1..Len(history) :
                              RecentSamePlate(history[i], args[t], now16[t])
            IN  IF Len(history) = 0
                THEN /\ OutcomesOf(r, 16) = 1
                     /\ Passed(r, "DUPLICATE_CLAIM_NOT_APPLICABLE")
                ELSE /\ Failed(r, "DUPLICATE_OPEN_CLAIM", "HIGH") <=> open
                     /\ Failed(r, "DUPLICATE_PLATE_RECENT", "HIGH") <=> recent
                     /\ Passed(r, "NO_DUPLICATE_CLAIMS") <=> ~open /\ ~recent
                     /\ ~Passed(r, "DUPLICATE_CLAIM_NOT_APPLICABLE")
                     /\ OutcomesOf(r, 16) = IF open /\ recent THEN 2 ELSE 1

\* one prior claim that is open and recent with the plate of the claim: both
\* failures in one run
C26_Witness ==
    \E t \in Callers :
        /\ Done(t)
        /\ {"DUPLICATE_OPEN_CLAIM", "DUPLICATE_PLATE_RECENT"} \subseteq RuleIds(result[t])

\* a history of which no prior claim is open or recent
C26_WitnessNone ==
    \E t \in Callers :
        /\ Done(t)
        /\ Len(args[t].history) > 0
        /\ Passed(result[t], "NO_DUPLICATE_CLAIMS")

\* a prior claim of the same plate that is exactly 30 days old
C26_WitnessBoundary ==
    \E t \in Callers :
        /\ Done(t)
        /\ \E i \in 1..Len(args[t].history) :
                /\ "created_at" \in DOMAIN args[t].history[i]
                /\ args[t].history[i]["created_at"].iso
                /\ now16[t] - args[t].history[i]["created_at"].day = DUPLICATE_CLAIM_WINDOW_DAYS
        /\ "DUPLICATE_PLATE_RECENT" \in RuleIds(result[t])

\* C27: the fraud_score of a forensic record stored for a result of the
\* engine, severity_score / 10, lies in the range 0.0 to 1.0.
C27_FraudScoreInUnitRange ==
    EngineVerdictStored =>
        /\ db.forensic.fraud_score.num >= 0
        /\ db.forensic.fraud_score.num <= db.forensic.fraud_score.den

\* C28: in every result auto_approved is true exactly when the status is
\* APPROVED, requires_human_review exactly when it is FLAGGED or REJECTED, so
\* exactly one of the two is true; requires_monitoring is true only when the
\* status is APPROVED and failed_checks is not empty; confidence_level is
\* never LOW.
C28_FlagsFollowStatus ==
    \A t \in Callers :
        Done(t) =>
            LET r == result[t]
            IN  /\ r.status \in {"APPROVED", "FLAGGED", "REJECTED"}
                /\ r.auto_approved <=> r.status = "APPROVED"
                /\ r.requires_human_review <=> r.status \in {"FLAGGED", "REJECTED"}
                /\ r.auto_approved # r.requires_human_review
                /\ r.requires_monitoring =>
                        r.status = "APPROVED" /\ Len(r.failed_checks) > 0
                /\ r.confidence_level # "LOW"

\* an approved result under monitoring
C28_Witness ==
    \E t \in Callers :
        /\ Done(t)
        /\ result[t].status = "APPROVED"
        /\ result[t].auto_approved
        /\ result[t].requires_monitoring
        /\ Len(result[t].failed_checks) > 0

\* a flagged result
C28_WitnessFlagged ==
    \E t \in Callers :
        Done(t) /\ result[t].status = "FLAGGED" /\ result[t].requires_human_review

\* the vehicle_identification section of a call and a lower-cased key of it
DetectedOf(a) == Section(a.ai_analysis, "vehicle_identification")
DetectedKey(a, k) == StrLower(StrOf(DetectedOf(a), k))
PolicyKey(a, k) == StrLower(StrOf(a.policy_data, k))

\* a detected value is missing, or contains or is contained in the policy value
MissingOrMatches(d, p) == d = <<>> \/ StrIn(p, d) \/ StrIn(d, p)

\* C29: in check 5 a detected make or model that is missing matches any
\* non-empty policy make or model: with a policy that has make and model,
\* facts without vehicle identification record the pass VEHICLE_MATCH and the
\* MEDIUM failure VEHICLE_LOW_CONFIDENCE; a policy whose make or model is
\* empty yields CRITICAL VEHICLE_MISMATCH whatever was detected.
C29_MissingDetectionMatches ==
    \A t \in Callers :
        Done(t) =>
            LET r == result[t]
                a == args[t]
                p_make == PolicyKey(a, "vehicle_make")
                p_model == PolicyKey(a, "vehicle_model")
            IN  IF p_make = <<>> \/ p_model = <<>>
                THEN /\ Failed(r, "VEHICLE_MISMATCH", "CRITICAL")
                     /\ ~Passed(r, "VEHICLE_MATCH")
                ELSE /\ MissingOrMatches(DetectedKey(a, "make"), p_make)
                        /\ MissingOrMatches(DetectedKey(a, "model"), p_model)
                            => /\ Passed(r, "VEHICLE_MATCH")
                               /\ "VEHICLE_MISMATCH" \notin RuleIds(r)
                     /\ DOMAIN DetectedOf(a) = {} =>
                            /\ Passed(r, "VEHICLE_MATCH")
                            /\ Failed(r, "VEHICLE_LOW_CONFIDENCE", "MEDIUM")

\* facts without vehicle identification against a policy with make and model
C29_Witness ==
    \E t \in Callers :
        /\ Done(t)
        /\ DOMAIN DetectedOf(args[t]) = {}
        /\ PolicyKey(args[t], "vehicle_make") # <<>>
        /\ PolicyKey(args[t], "vehicle_model") # <<>>
        /\ Passed(result[t], "VEHICLE_MATCH")
        /\ Failed(result[t], "VEHICLE_LOW_CONFIDENCE", "MEDIUM")

\* a matching detection against a policy without make
C29_WitnessEmptyPolicy ==
    \E t \in Callers :
        /\ Done(t)
        /\ PolicyKey(args[t], "vehicle_make") = <<>>
        /\ DetectedKey(args[t], "make") # <<>>
        /\ Failed(result[t], "VEHICLE_MISMATCH", "CRITICAL")

\* the task returned after it had committed the status "processing"
ReturnedAfterProcessing == task.pc = "closed" /\ task.began

\* C30: when a run of the task that committed "processing" for its claim has
\* returned, the committed status of the claim is "completed" or "failed",
\* also when the analysis, a later step or a commit raised: no claim is left
\* in "processing" by a task that has finished.
C30_NeverLeftInProcessing ==
    ReturnedAfterProcessing => db.claim.status \in {"completed", "failed"}

\* C30 without database errors: a run whose commits all succeeded leaves the
\* status "completed" or "failed" when it returns.
C30_SettledWhenCommitsSucceed ==
    ReturnedAfterProcessing /\ db = session =>
        db.claim.status \in {"completed", "failed"}

====
